---- MODULE Spec2Model ----
(***************************************************************************)
(* Model of the simulation core of the grid game: class Game of            *)
(* src/game.py (field, players, hostiles ("zombies"), items, portal).      *)
(* The variable game is one Game object; every action is one public        *)
(* method call on it, recorded in call (method, arguments, return value).  *)
(***************************************************************************)
EXTENDS Integers, Sequences, FiniteSets, TLC

(* ---------------------------- bounds ----------------------------------- *)
\* user ids that may call into the session
NumUsers == 2
\* lives a caller may pass to add_player: 1..MaxLives
MaxLives == 2
\* highest level create_next_level is followed to (the third level can be
\* a field crowded enough for a spawn search to fail)
MaxLevel == 3
\* a random placement draw is sampled among the first SpawnChoices free
\* cells in row-major order (the first one is what the fallback scan yields)
SpawnChoices == 1
\* a weighted draw of a zombie step is sampled among the DrawChoices
\* heaviest candidates (ties in the order of the directions list)
DrawChoices == 1
\* calls that change the session, followed from its construction
MaxCalls == 5
\* a level past LEVEL_CONFIGS at which sessions are constructed too, next to
\* level 1
HighLevel == 6
\* entities a placement loop without a systematic scan (_generate_items,
\* _generate_zombies) is sampled to miss by running out of attempts
Shortfall == 1

\* calls that change a session, in the runs that keep the previous session
HeldCalls == 3

\* reactions the adapter handles in one run, and the moves played, one
\* handler at a time, before that run starts
BotHandlers == 2
PlayedMoves == 2

\* cells the draws of a placement loop are taken from: the first
\* LoopDrawn - 1 cells of the grid in row-major order, and the last one
LoopDrawn == 4

\* players who buy and use shop items
ShopUsers == 1

(* ------------------------ program constants ---------------------------- *)
\* field size after the cap of Game.__init__ has cut it to the floor
\* (max(5, width), max(3, height)); reached with long configured glyphs
Width == 5
Height == 3
ZOMBIE_MOVE_INTERVAL == 2
\* move weights of _move_zombies, doubled to stay in the integers (3, 1, 0.5)
WeightCloser == 6
WeightSame == 2
WeightFarther == 1
\* len(DEFAULT_PLAYER_EMOJIS)
PaletteSize == 4

\* None, for a user id (winner) and for a cell (portal_pos, a failed placement)
NoUser == 0
NoCell == <<-1, -1>>
Users == 1..NumUsers
Lives == 1..MaxLives
Cells == (0..(Width - 1)) \X (0..(Height - 1))
ITEM_TYPES == {"diamond", "wood", "stone", "coal"}

DIRECTION_UP == <<0, -1>>
DIRECTION_DOWN == <<0, 1>>
DIRECTION_LEFT == <<-1, 0>>
DIRECTION_RIGHT == <<1, 0>>
Directions == <<DIRECTION_UP, DIRECTION_DOWN, DIRECTION_LEFT, DIRECTION_RIGHT>>
\* the displacements the callers of move pass (EMOJI_TO_DIRECTION)
Displacements == {DIRECTION_UP, DIRECTION_DOWN, DIRECTION_LEFT, DIRECTION_RIGHT}
\* the (dx, dy) move is called with: any pair of integers, here the four
\* directions, no step and a step of two cells
Requests == Displacements \cup {<<0, 0>>, <<2, 0>>}

\* LEVEL_CONFIGS / DEFAULT_LEVEL_CONFIG: (min_items, max_items, width, height, obstacle_count)
LevelConfig(lv) ==
  CASE lv = 1 -> <<2, 3, 8, 5, 2>>
    [] lv = 2 -> <<3, 4, 10, 6, 3>>
    [] lv = 3 -> <<4, 5, 12, 7, 4>>
    [] lv = 4 -> <<5, 6, 14, 8, 5>>
    [] lv = 5 -> <<6, 7, 16, 9, 6>>
    [] OTHER -> <<7, 8, 18, 10, 7>>

\* ZOMBIE_COUNT_BY_LEVEL / DEFAULT_ZOMBIE_COUNT: (min_zombies, max_zombies)
ZombieCount(lv) ==
  CASE lv = 1 -> <<0, 1>>
    [] lv = 2 -> <<1, 2>>
    [] lv = 3 -> <<1, 3>>
    [] lv = 4 -> <<2, 3>>
    [] lv = 5 -> <<2, 4>>
    [] OTHER -> <<3, 5>>

(* --------------------------- helpers ----------------------------------- *)
Abs(n) == IF n < 0 THEN -n ELSE n
Range(s) == {s[i] : i \in DOMAIN s}
Values(f) == {f[k] : k \in DOMAIN f}
\* del f[k]
Del(f, k) == [j \in DOMAIN f \ {k} |-> f[j]]
\* f[k] = v for a key that may be new
Put(f, k, v) == [j \in DOMAIN f \cup {k} |-> IF j = k THEN v ELSE f[j]]
\* list.remove(k): the first occurrence of k leaves the list
Without(s, k) ==
  IF \A i \in DOMAIN s : s[i] # k THEN s
  ELSE LET first == CHOOSE i \in DOMAIN s : s[i] = k /\ \A j \in 1..(i - 1) : s[j] # k
       IN SubSeq(s, 1, first - 1) \o SubSeq(s, first + 1, Len(s))
\* row-major rank of a cell: the order of the fallback scans
Idx(c) == c[2] * Width + c[1]
InBounds(c) == c[1] >= 0 /\ c[1] < Width /\ c[2] >= 0 /\ c[2] < Height
Plus(c, d) == <<c[1] + d[1], c[2] + d[2]>>
Manhattan(a, b) == Abs(a[1] - b[1]) + Abs(a[2] - b[2])
RECURSIVE Sum(_)
Sum(f) ==
  IF DOMAIN f = {} THEN 0
  ELSE LET k == CHOOSE j \in DOMAIN f : TRUE IN f[k] + Sum(Del(f, k))
EmptyInventory == [t \in ITEM_TYPES |-> 0]
EmptyMap == [j \in {} |-> 0]

\* the cells a bounded random search over the cells outside blocked is
\* sampled to return
SampleFree(blocked) ==
  LET free == Cells \ blocked
  IN {c \in free : Cardinality({d \in free : Idx(d) < Idx(c)}) < SpawnChoices}

(* ------------------------- generated fields ---------------------------- *)
\* list(self.item_types.keys())
ItemKinds == <<"diamond", "wood", "stone", "coal">>

\* _generate_items on a field without players: the item maps it may return.
\* The loop stops at items_to_generate items or when its attempts run out,
\* which is certain once no open cell is left. Sampled: the cells are the
\* first ones in row-major order, the kind of a cell goes by its rank.
GenerateItems(obstacles, required_items_count) ==
  LET open == Cells \ obstacles
      reach(items_to_generate) ==
        IF items_to_generate < Cardinality(open) THEN items_to_generate
        ELSE Cardinality(open)
      counts == {n \in 0..Cardinality(open) :
                   \E surplus \in 2..4 :
                     /\ n <= reach(required_items_count + surplus)
                     /\ n >= reach(required_items_count + surplus) - Shortfall}
  IN {[c \in {d \in open : Cardinality({e \in open : Idx(e) < Idx(d)}) < n} |->
         ItemKinds[(Idx(c) % Len(ItemKinds)) + 1]] : n \in counts}

\* _generate_portal giving up after its random attempts, without the scan
GeneratePortalWithoutScan(obstacles, items) ==
  LET blocked == obstacles \cup DOMAIN items
  IN IF Cells \subseteq blocked THEN {NoCell} ELSE {NoCell} \cup SampleFree(blocked)

\* _generate_portal on a field without players: the cells it may return;
\* NoCell only after the systematic scan found no cell
GeneratePortal(obstacles, items) ==
  LET blocked == obstacles \cup DOMAIN items
  IN IF Cells \subseteq blocked THEN {NoCell} ELSE SampleFree(blocked)

\* Sample outcomes of _generate_obstacles, the draw of required_items_count,
\* _generate_items and _generate_portal for a level of LEVEL_CONFIGS.
SampleFields(lv) ==
  CASE lv = 1 ->
       { [obstacles |-> {<<2, 1>>, <<2, 2>>},
          required_items_count |-> 2,
          items |-> (<<1, 0>> :> "diamond") @@ (<<2, 0>> :> "wood") @@
                    (<<3, 1>> :> "stone") @@ (<<4, 1>> :> "diamond"),
          portal_pos |-> <<3, 0>>] }
    [] lv = 2 ->
       { [obstacles |-> {<<4, 0>>, <<4, 1>>, <<4, 2>>},
          required_items_count |-> 3,
          items |-> (<<2, 0>> :> "coal") @@ (<<3, 0>> :> "wood") @@
                    (<<0, 1>> :> "wood") @@ (<<1, 1>> :> "diamond") @@
                    (<<3, 1>> :> "stone"),
          portal_pos |-> <<2, 2>>] }
    \* a crowded field: obstacle_count obstacles, the most items the draw
    \* allows and the portal leave one free cell
    [] OTHER ->
       { [obstacles |-> {<<0, 2>>, <<1, 2>>, <<2, 2>>, <<3, 2>>},
          required_items_count |-> 5,
          items |-> (<<1, 0>> :> "wood") @@ (<<2, 0>> :> "coal") @@
                    (<<3, 0>> :> "stone") @@ (<<4, 0>> :> "diamond") @@
                    (<<0, 1>> :> "wood") @@ (<<1, 1>> :> "coal") @@
                    (<<2, 1>> :> "stone") @@ (<<3, 1>> :> "wood") @@
                    (<<4, 1>> :> "diamond"),
          portal_pos |-> <<4, 2>>] }

\* what the generators of Game.__init__ guarantee of a field
WellGenerated(lv, f) ==
  LET cfg == LevelConfig(lv)
  IN /\ f.obstacles \subseteq Cells
     /\ Cardinality(f.obstacles) <= cfg[5]
     /\ f.required_items_count \in cfg[1]..cfg[2]
     /\ DOMAIN f.items \subseteq Cells \ f.obstacles
     /\ Cardinality(DOMAIN f.items) <= f.required_items_count + 4
     /\ \A c \in DOMAIN f.items : f.items[c] \in ITEM_TYPES
     /\ \/ f.portal_pos \in Cells \ (f.obstacles \cup DOMAIN f.items)
        \/ f.portal_pos = NoCell /\ Cells \subseteq f.obstacles \cup DOMAIN f.items

\* a sample outcome of _generate_obstacles past LEVEL_CONFIGS: obstacle_count
\* (7) obstacles
HighObstacles ==
  {<<1, 0>>, <<3, 0>>, <<0, 1>>, <<2, 1>>, <<4, 1>>, <<1, 2>>, <<3, 2>>}

\* the fields of a level past LEVEL_CONFIGS: the draw of required_items_count,
\* then items and portal as their generators place them around the obstacles
GeneratedFields(lv) ==
  UNION { UNION { { [obstacles |-> HighObstacles,
                     required_items_count |-> required,
                     items |-> items,
                     portal_pos |-> portal]
                    : portal \in GeneratePortal(HighObstacles, items) }
                  : items \in GenerateItems(HighObstacles, required) }
          : required \in LevelConfig(lv)[1]..LevelConfig(lv)[2] }

\* the fields sessions of a level are constructed on
Fields(lv) ==
  IF lv \in 1..5 THEN {f \in SampleFields(lv) : WellGenerated(lv, f)}
  ELSE GeneratedFields(lv)

(* ------------------------ entity placement ----------------------------- *)
\* _generate_start_position: the cells it may return; NoCell only when
\* every cell is an obstacle or excluded
GenerateStartPosition(g, exclude_positions) ==
  LET blocked == g.obstacles \cup exclude_positions
  IN IF Cells \subseteq blocked THEN {NoCell} ELSE SampleFree(blocked)

\* the placement loop of _generate_zombies for n more zombies
RECURSIVE PlaceZombies(_, _)
PlaceZombies(blocked_positions, n) ==
  IF n = 0 \/ Cells \subseteq blocked_positions THEN {<<>>}
  ELSE UNION {{<<c>> \o rest : rest \in PlaceZombies(blocked_positions \cup {c}, n - 1)}
              : c \in SampleFree(blocked_positions)}

\* _generate_zombies: the lists it may return
GenerateZombies(g) ==
  LET blocked_positions ==
        g.obstacles \cup Values(g.player_positions) \cup DOMAIN g.items
          \cup (IF g.portal_pos # NoCell THEN {g.portal_pos} ELSE {})
      cnt == ZombieCount(g.level)
      \* the loop ends at zombie_count zombies or when its attempts run out
      placed == {n \in 0..cnt[2] : \E zombie_count \in cnt[1]..cnt[2] :
                   n <= zombie_count /\ n >= zombie_count - Shortfall}
  IN UNION {PlaceZombies(blocked_positions, n) : n \in placed}

(* --------------------------- join / leave ------------------------------ *)
\* add_player with a spawn search that does not exclude the other players
AddPlayerOntoPlayers(g, user_id, player_lives) ==
  IF user_id \in DOMAIN g.player_positions THEN {<<g, "active">>}
  ELSE
    LET exclude_positions ==
          DOMAIN g.items \cup (IF g.portal_pos # NoCell THEN {g.portal_pos} ELSE {})
    IN { IF start_pos = NoCell THEN <<g, "full">>
         ELSE << [g EXCEPT
                    !.players = Append(@, user_id),
                    !.player_positions = Put(@, user_id, start_pos),
                    !.player_emojis = Put(@, user_id, Len(g.players) % PaletteSize),
                    !.player_lives = Put(@, user_id, player_lives),
                    !.collected_items = Put(@, user_id, EmptyInventory),
                    !.player_wins = IF user_id \in DOMAIN @ THEN @ ELSE Put(@, user_id, 0)],
                 "ok" >>
         : start_pos \in GenerateStartPosition(g, exclude_positions) }

\* add_player entering the roster before it searches for a spawn cell
AddPlayerRosterFirst(g, user_id, player_lives) ==
  IF user_id \in DOMAIN g.player_positions THEN {<<g, "active">>}
  ELSE
    LET emoji_index == Len(g.players) % PaletteSize
        exclude_positions ==
          Values(g.player_positions) \cup DOMAIN g.items
            \cup (IF g.portal_pos # NoCell THEN {g.portal_pos} ELSE {})
    IN { IF start_pos = NoCell THEN <<[g EXCEPT !.players = Append(@, user_id)], "full">>
         ELSE << [g EXCEPT
                    !.players = Append(@, user_id),
                    !.player_positions = Put(@, user_id, start_pos),
                    !.player_emojis = Put(@, user_id, emoji_index),
                    !.player_lives = Put(@, user_id, player_lives),
                    !.collected_items = Put(@, user_id, EmptyInventory),
                    !.player_wins = IF user_id \in DOMAIN @ THEN @ ELSE Put(@, user_id, 0)],
                 "ok" >>
         : start_pos \in GenerateStartPosition(g, exclude_positions) }

\* add_player that starts every joining player's win record at zero
AddPlayerResetWins(g, user_id, player_lives) ==
  IF user_id \in DOMAIN g.player_positions THEN {<<g, "active">>}
  ELSE
    LET emoji_index == Len(g.players) % PaletteSize
        exclude_positions ==
          Values(g.player_positions) \cup DOMAIN g.items
            \cup (IF g.portal_pos # NoCell THEN {g.portal_pos} ELSE {})
    IN { IF start_pos = NoCell THEN <<g, "full">>
         ELSE << [g EXCEPT
                    !.players = Append(@, user_id),
                    !.player_positions = Put(@, user_id, start_pos),
                    !.player_emojis = Put(@, user_id, emoji_index),
                    !.player_lives = Put(@, user_id, player_lives),
                    !.collected_items = Put(@, user_id, EmptyInventory),
                    !.player_wins = Put(@, user_id, 0)],
                 "ok" >>
         : start_pos \in GenerateStartPosition(g, exclude_positions) }

\* add_player: the sessions it may end in, each with the return statement
\* taken ("ok" is return True)
AddPlayer(g, user_id, player_lives) ==
  IF user_id \in DOMAIN g.player_positions THEN {<<g, "active">>}
  ELSE
    LET emoji_index == Len(g.players) % PaletteSize
        exclude_positions ==
          Values(g.player_positions) \cup DOMAIN g.items
            \cup (IF g.portal_pos # NoCell THEN {g.portal_pos} ELSE {})
    IN { IF start_pos = NoCell THEN <<g, "full">>
         ELSE << [g EXCEPT
                    !.players = Append(@, user_id),
                    !.player_positions = Put(@, user_id, start_pos),
                    !.player_emojis = Put(@, user_id, emoji_index),
                    !.player_lives = Put(@, user_id, player_lives),
                    !.collected_items = Put(@, user_id, EmptyInventory),
                    !.player_wins = IF user_id \in DOMAIN @ THEN @ ELSE Put(@, user_id, 0)],
                 "ok" >>
         : start_pos \in GenerateStartPosition(g, exclude_positions) }

\* remove_player that drops the win record with the rest
RemovePlayerAndWins(g, user_id) ==
  IF user_id \in DOMAIN g.player_positions
  THEN [g EXCEPT
          !.player_positions = Del(@, user_id),
          !.collected_items = IF user_id \in DOMAIN @ THEN Del(@, user_id) ELSE @,
          !.player_lives = IF user_id \in DOMAIN @ THEN Del(@, user_id) ELSE @,
          !.player_emojis = IF user_id \in DOMAIN @ THEN Del(@, user_id) ELSE @,
          !.player_wins = IF user_id \in DOMAIN @ THEN Del(@, user_id) ELSE @,
          !.players = Without(@, user_id)]
  ELSE g

\* remove_player
RemovePlayerOf(g, user_id) ==
  IF user_id \in DOMAIN g.player_positions
  THEN [g EXCEPT
          !.player_positions = Del(@, user_id),
          !.collected_items = IF user_id \in DOMAIN @ THEN Del(@, user_id) ELSE @,
          !.player_lives = IF user_id \in DOMAIN @ THEN Del(@, user_id) ELSE @,
          !.player_emojis = IF user_id \in DOMAIN @ THEN Del(@, user_id) ELSE @,
          !.players = Without(@, user_id)]
  ELSE g

(* ----------------------------- hostiles -------------------------------- *)
\* the iteration order of the player_positions dict: insertion order, which
\* add_player and create_next_level keep equal to the order of players
PositionOrder(g) == SelectSeq(g.players, LAMBDA u : u \in DOMAIN g.player_positions)

\* the collision loop taking one life for each zombie on the player's cell
RECURSIVE CollisionLoopPerZombie(_, _, _)
CollisionLoopPerZombie(g, snapshot, order) ==
  IF order = <<>> THEN g
  ELSE
    LET user_id == Head(order)
        player_pos == snapshot[user_id]
        here == Cardinality({i \in DOMAIN g.zombies : g.zombies[i] = player_pos})
    IN IF here > 0
       THEN LET hit == [g EXCEPT
                          !.player_lives[user_id] = @ - here,
                          !.zombies = SelectSeq(@, LAMBDA z : z # player_pos)]
            IN CollisionLoopPerZombie(
                 IF hit.player_lives[user_id] <= 0 THEN RemovePlayerOf(hit, user_id) ELSE hit,
                 snapshot, Tail(order))
       ELSE CollisionLoopPerZombie(g, snapshot, Tail(order))

\* the collision loop eliminating a player only below zero lives
RECURSIVE CollisionLoopBelowZero(_, _, _)
CollisionLoopBelowZero(g, snapshot, order) ==
  IF order = <<>> THEN g
  ELSE
    LET user_id == Head(order)
        player_pos == snapshot[user_id]
    IN IF player_pos \in Range(g.zombies)
       THEN LET hit == [g EXCEPT
                          !.player_lives[user_id] = @ - 1,
                          !.zombies = SelectSeq(@, LAMBDA z : z # player_pos)]
            IN CollisionLoopBelowZero(
                 IF hit.player_lives[user_id] < 0 THEN RemovePlayerOf(hit, user_id) ELSE hit,
                 snapshot, Tail(order))
       ELSE CollisionLoopBelowZero(g, snapshot, Tail(order))

\* the loop of _check_zombie_collision over the snapshot of player_positions
RECURSIVE CollisionLoop(_, _, _)
CollisionLoop(g, snapshot, order) ==
  IF order = <<>> THEN g
  ELSE
    LET user_id == Head(order)
        player_pos == snapshot[user_id]
    IN IF player_pos \in Range(g.zombies)
       THEN LET hit == [g EXCEPT
                          !.player_lives[user_id] = @ - 1,
                          !.zombies = SelectSeq(@, LAMBDA z : z # player_pos)]
            IN CollisionLoop(
                 IF hit.player_lives[user_id] <= 0 THEN RemovePlayerOf(hit, user_id) ELSE hit,
                 snapshot, Tail(order))
       ELSE CollisionLoop(g, snapshot, Tail(order))

\* _check_zombie_collision
CheckZombieCollision(g) ==
  LET after == CollisionLoop(g, g.player_positions, PositionOrder(g))
  IN IF DOMAIN after.player_positions = {}
     THEN [after EXCEPT !.game_over = TRUE]
     ELSE after

\* _can_zombie_move
CanZombieMove(g, zombie_pos, d) ==
  LET new == Plus(zombie_pos, d)
  IN InBounds(new) /\ new \notin g.obstacles

\* the nearest-player search of _move_zombies: first strict minimum in
\* iteration order
RECURSIVE Nearest(_, _, _, _)
Nearest(g, zombie_pos, order, best) ==
  IF order = <<>> THEN best
  ELSE LET player_pos == g.player_positions[Head(order)]
       IN Nearest(g, zombie_pos, Tail(order),
                  IF best = NoCell \/ Manhattan(player_pos, zombie_pos) < Manhattan(best, zombie_pos)
                  THEN player_pos ELSE best)

\* the weight _move_zombies gives a candidate step
MoveWeight(zombie_pos, d, nearest_player_pos) ==
  LET old_distance == Manhattan(nearest_player_pos, zombie_pos)
      new_distance == Manhattan(nearest_player_pos, Plus(zombie_pos, d))
  IN IF new_distance < old_distance THEN WeightCloser
     ELSE IF new_distance = old_distance THEN WeightSame
     ELSE WeightFarther

\* the candidate steps of one zombie with "stay" among them
ZombieTargetsOrRest(g, zombie_pos) ==
  LET nearest_player_pos == Nearest(g, zombie_pos, PositionOrder(g), NoCell)
      possible_moves == {i \in DOMAIN Directions : CanZombieMove(g, zombie_pos, Directions[i])}
      w(i) == MoveWeight(zombie_pos, Directions[i], nearest_player_pos)
      heavier(i) == {j \in possible_moves : w(j) > w(i) \/ (w(j) = w(i) /\ j < i)}
  IN {zombie_pos} \cup
     {Plus(zombie_pos, Directions[i]) :
        i \in {k \in possible_moves : Cardinality(heavier(k)) < DrawChoices}}

\* the cells one zombie may be at after _move_zombies
ZombieTargets(g, zombie_pos) ==
  LET nearest_player_pos == Nearest(g, zombie_pos, PositionOrder(g), NoCell)
      possible_moves == {i \in DOMAIN Directions : CanZombieMove(g, zombie_pos, Directions[i])}
      weighted == {i \in possible_moves :
                     MoveWeight(zombie_pos, Directions[i], nearest_player_pos) > 0}
      candidates == IF weighted # {} THEN weighted ELSE possible_moves
      w(i) == MoveWeight(zombie_pos, Directions[i], nearest_player_pos)
      heavier(i) == {j \in candidates : w(j) > w(i) \/ (w(j) = w(i) /\ j < i)}
  IN IF nearest_player_pos = NoCell \/ possible_moves = {} THEN {zombie_pos}
     ELSE {Plus(zombie_pos, Directions[i]) :
             i \in {k \in candidates : Cardinality(heavier(k)) < DrawChoices}}

\* _move_zombies letting the zombies roam when there is no player to target
MoveZombiesRoaming(g) ==
  LET targets == [i \in DOMAIN g.zombies |->
                    IF DOMAIN g.player_positions = {}
                    THEN {Plus(g.zombies[i], Directions[k]) : k \in
                            {j \in DOMAIN Directions : CanZombieMove(g, g.zombies[i], Directions[j])}}
                    ELSE ZombieTargets(g, g.zombies[i])]
  IN {zs \in [DOMAIN g.zombies -> UNION Values(targets)] :
        \A i \in DOMAIN g.zombies : zs[i] \in targets[i]}

\* _move_zombies: the zombie lists it may leave
MoveZombies(g) ==
  IF DOMAIN g.player_positions = {} THEN {g.zombies}
  ELSE LET targets == [i \in DOMAIN g.zombies |-> ZombieTargets(g, g.zombies[i])]
       IN {zs \in [DOMAIN g.zombies -> UNION Values(targets)] :
             \A i \in DOMAIN g.zombies : zs[i] \in targets[i]}

(* ------------------------------ moves ---------------------------------- *)
\* can_move without the check for another player on the target
CanMoveReturnOntoPlayers(g, user_id, d) ==
  IF user_id \notin DOMAIN g.player_positions THEN "absent"
  ELSE LET new_pos == Plus(g.player_positions[user_id], d)
       IN IF ~InBounds(new_pos) THEN "bounds"
          ELSE IF new_pos \in g.obstacles THEN "obstacle"
          ELSE "ok"

\* can_move without the check for an obstacle on the target
CanMoveReturnOntoObstacles(g, user_id, d) ==
  IF user_id \notin DOMAIN g.player_positions THEN "absent"
  ELSE LET new_pos == Plus(g.player_positions[user_id], d)
       IN IF ~InBounds(new_pos) THEN "bounds"
          ELSE IF \E other_user_id \in DOMAIN g.player_positions :
                    other_user_id # user_id /\ g.player_positions[other_user_id] = new_pos
               THEN "occupied"
          ELSE "ok"

\* can_move, by the return statement it leaves through: "ok" is return True
CanMoveReturn(g, user_id, d) ==
  IF user_id \notin DOMAIN g.player_positions THEN "absent"
  ELSE LET new_pos == Plus(g.player_positions[user_id], d)
       IN IF ~InBounds(new_pos) THEN "bounds"
          ELSE IF new_pos \in g.obstacles THEN "obstacle"
          ELSE IF \E other_user_id \in DOMAIN g.player_positions :
                    other_user_id # user_id /\ g.player_positions[other_user_id] = new_pos
               THEN "occupied"
          ELSE "ok"

\* can_move
CanMove(g, user_id, d) == CanMoveReturn(g, user_id, d) = "ok"

\* move, by the return statement it leaves through: "ok" is return True
MoveReturn(g, user_id, d) ==
  IF g.game_over THEN "game_over"
  ELSE IF user_id \notin DOMAIN g.player_positions THEN "absent"
  ELSE CanMoveReturn(g, user_id, d)

\* can_reach_portal asking for more than the threshold
CanReachPortalStrict(g, user_id) ==
  /\ user_id \in DOMAIN g.collected_items
  /\ Sum(g.collected_items[user_id]) > g.required_items_count

\* can_reach_portal satisfied by the inventory of any player, as render asks
CanReachPortalAnyPlayer(g, user_id) ==
  \E uid \in DOMAIN g.collected_items :
    Sum(g.collected_items[uid]) >= g.required_items_count

\* can_reach_portal
CanReachPortal(g, user_id) ==
  /\ user_id \in DOMAIN g.collected_items
  /\ Sum(g.collected_items[user_id]) >= g.required_items_count

\* the item pickup that leaves the item on the field
PickUpLeavingItem(g, user_id, new_pos) ==
  IF new_pos \in DOMAIN g.items
  THEN LET item_type == g.items[new_pos]
           inv == IF user_id \in DOMAIN g.collected_items
                  THEN g.collected_items[user_id] ELSE EmptyInventory
       IN [g EXCEPT
             !.collected_items = Put(@, user_id, [inv EXCEPT ![item_type] = @ + 1])]
  ELSE g

\* the item pickup that credits the item to every active player
PickUpShared(g, user_id, new_pos) ==
  IF new_pos \in DOMAIN g.items
  THEN LET item_type == g.items[new_pos]
       IN [g EXCEPT
             !.collected_items =
               [u \in DOMAIN @ \cup {user_id} |->
                  LET inv == IF u \in DOMAIN @ THEN @[u] ELSE EmptyInventory
                  IN [inv EXCEPT ![item_type] = @ + 1]],
             !.items = Del(@, new_pos)]
  ELSE g

\* move, the item pickup: the player is on new_pos
PickUp(g, user_id, new_pos) ==
  IF new_pos \in DOMAIN g.items
  THEN LET item_type == g.items[new_pos]
           inv == IF user_id \in DOMAIN g.collected_items
                  THEN g.collected_items[user_id] ELSE EmptyInventory
       IN [g EXCEPT
             !.collected_items = Put(@, user_id, [inv EXCEPT ![item_type] = @ + 1]),
             !.items = Del(@, new_pos)]
  ELSE g

\* the portal check without the test that no winner exists yet
ReachPortalAgain(g, user_id, new_pos) ==
  IF g.portal_pos # NoCell /\ new_pos = g.portal_pos /\ CanReachPortal(g, user_id)
  THEN [g EXCEPT
          !.winner = user_id,
          !.level_complete = TRUE,
          !.player_wins = Put(@, user_id,
                              (IF user_id \in DOMAIN @ THEN @[user_id] ELSE 0) + 1)]
  ELSE g

\* the portal check that does not mark the level complete
ReachPortalNoFlag(g, user_id, new_pos) ==
  IF g.portal_pos # NoCell /\ new_pos = g.portal_pos /\ CanReachPortal(g, user_id)
  THEN IF g.winner = NoUser
       THEN [g EXCEPT
               !.winner = user_id,
               !.player_wins = Put(@, user_id,
                                   (IF user_id \in DOMAIN @ THEN @[user_id] ELSE 0) + 1)]
       ELSE g
  ELSE g

\* move, the portal check: the player is on new_pos
ReachPortal(g, user_id, new_pos) ==
  IF g.portal_pos # NoCell /\ new_pos = g.portal_pos /\ CanReachPortal(g, user_id)
  THEN IF g.winner = NoUser
       THEN [g EXCEPT
               !.winner = user_id,
               !.level_complete = TRUE,
               !.player_wins = Put(@, user_id,
                                   (IF user_id \in DOMAIN @ THEN @[user_id] ELSE 0) + 1)]
       ELSE g
  ELSE g

\* move, from the position update to the first collision pass (not included)
Step(g, user_id, d) ==
  LET new_pos == Plus(g.player_positions[user_id], d)
      placed == [g EXCEPT !.player_positions[user_id] = new_pos]
  IN ReachPortal(PickUp(placed, user_id, new_pos), user_id, new_pos)

NoPass == <<>>
\* the tick without the collision pass after the zombies moved
TickWithoutRecheck(g) ==
  LET counted == [g EXCEPT !.zombie_move_counter = @ + 1]
  IN IF counted.zombie_move_counter >= ZOMBIE_MOVE_INTERVAL
     THEN {LET moved == [counted EXCEPT !.zombies = zs, !.zombie_move_counter = 0]
           IN <<moved, <<moved>>>> : zs \in MoveZombies(counted)}
     ELSE {<<counted, NoPass>>}

\* the tick that lets the counter pass the interval before the zombies move
TickPastInterval(g) ==
  LET counted == [g EXCEPT !.zombie_move_counter = @ + 1]
  IN IF counted.zombie_move_counter > ZOMBIE_MOVE_INTERVAL
     THEN {LET moved == [counted EXCEPT !.zombies = zs, !.zombie_move_counter = 0]
           IN <<CheckZombieCollision(moved), <<moved>>>> : zs \in MoveZombies(counted)}
     ELSE {<<counted, NoPass>>}

\* move, after the first collision pass: the sessions it may end in, each
\* with the session the second collision pass started from (NoPass if the
\* zombies did not move)
Tick(g) ==
  LET counted == [g EXCEPT !.zombie_move_counter = @ + 1]
  IN IF counted.zombie_move_counter >= ZOMBIE_MOVE_INTERVAL
     THEN {LET moved == [counted EXCEPT !.zombies = zs, !.zombie_move_counter = 0]
           IN <<CheckZombieCollision(moved), <<moved>>>> : zs \in MoveZombies(counted)}
     ELSE {<<counted, NoPass>>}

\* the collision passes of one call: sessions before and after each
PassLog(before1, after1, second) ==
  <<[before |-> before1, after |-> after1]>> \o
  (IF second[2] = NoPass THEN <<>>
   ELSE <<[before |-> second[2][1], after |-> second[1]]>>)

(* ------------------------------ render --------------------------------- *)
\* render, one field cell: the glyph the if/elif chain puts there (an item is
\* shown by the glyph of its kind)
RenderCell(g, pos) ==
  IF pos \in Values(g.player_positions) THEN "player"
  ELSE IF g.portal_pos # NoCell /\ pos = g.portal_pos
       THEN IF \E uid \in DOMAIN g.player_positions : CanReachPortal(g, uid)
            THEN "portal"
            ELSE "empty"
  ELSE IF pos \in Range(g.zombies) THEN "zombie"
  ELSE IF pos \in DOMAIN g.items THEN g.items[pos]
  ELSE IF pos \in g.obstacles THEN "obstacle"
  ELSE "empty"

\* render: the rows of the field between the walls
Render(g) ==
  [y \in 0..(Height - 1) |-> [x \in 0..(Width - 1) |-> RenderCell(g, <<x, y>>)]]

(* --------------------------- construction ------------------------------ *)
\* Game.__init__ up to the items and the portal, on a generated field
EmptyGame(lv, f) ==
  [level |-> lv,
   obstacles |-> f.obstacles,
   required_items_count |-> f.required_items_count,
   items |-> f.items,
   portal_pos |-> f.portal_pos,
   players |-> <<>>,
   player_positions |-> EmptyMap,
   collected_items |-> EmptyMap,
   player_lives |-> EmptyMap,
   player_emojis |-> EmptyMap,
   player_wins |-> EmptyMap,
   winner |-> NoUser,
   level_complete |-> FALSE,
   zombies |-> <<>>,
   zombie_move_counter |-> 0,
   game_over |-> FALSE]

\* Game.__init__: the sessions Game(level, player_lives, first_player_id) may
\* be; first_player_id = NoUser is the call without a first player
NewGame(lv, first_player_id, player_lives) ==
  UNION {
    LET joined == IF first_player_id = NoUser THEN {EmptyGame(lv, f)}
                  ELSE {r[1] : r \in AddPlayer(EmptyGame(lv, f), first_player_id, player_lives)}
    IN UNION {{[g EXCEPT !.zombies = zs] : zs \in GenerateZombies(g)} : g \in joined}
    : f \in Fields(lv) }

\* create_next_level, the spawn loop: the position tables it may leave
RECURSIVE SpawnAll(_, _, _, _)
SpawnAll(g, order, exclude_positions, positions) ==
  IF order = <<>> THEN {positions}
  ELSE UNION {
         IF start_pos # NoCell
         THEN SpawnAll(g, Tail(order), exclude_positions \cup {start_pos},
                       Put(positions, Head(order), start_pos))
         ELSE SpawnAll(g, Tail(order), exclude_positions, positions)
         : start_pos \in GenerateStartPosition(g, exclude_positions) }

\* create_next_level carrying the inventories into the next level
CreateNextLevelWithItems(previous_game) ==
  LET carried == Range(previous_game.players)
  IN UNION {
       LET new_game ==
             [fresh EXCEPT
                !.player_emojis = [u \in carried |-> previous_game.player_emojis[u]],
                !.player_lives = [u \in carried |-> previous_game.player_lives[u]],
                !.player_wins = [u \in carried |-> previous_game.player_wins[u]],
                !.collected_items = [u \in carried |-> previous_game.collected_items[u]],
                !.players = previous_game.players]
           exclude_positions ==
             DOMAIN new_game.items
               \cup (IF new_game.portal_pos # NoCell THEN {new_game.portal_pos} ELSE {})
       IN UNION {
            LET placed == [new_game EXCEPT
                             !.player_positions = positions,
                             !.level_complete = FALSE,
                             !.winner = NoUser,
                             !.game_over = FALSE,
                             !.zombie_move_counter = 0]
            IN {[placed EXCEPT !.zombies = zs] : zs \in GenerateZombies(placed)}
            : positions \in SpawnAll(new_game, new_game.players, exclude_positions, EmptyMap) }
       : fresh \in NewGame(previous_game.level + 1, NoUser, 0) }

\* create_next_level: the sessions it may return
CreateNextLevel(previous_game) ==
  LET carried == Range(previous_game.players)
  IN UNION {
       LET new_game ==
             [fresh EXCEPT
                !.player_emojis = [u \in carried |-> previous_game.player_emojis[u]],
                !.player_lives = [u \in carried |-> previous_game.player_lives[u]],
                !.player_wins = [u \in carried |-> previous_game.player_wins[u]],
                !.collected_items = [u \in carried |-> EmptyInventory],
                !.players = previous_game.players]
           exclude_positions ==
             DOMAIN new_game.items
               \cup (IF new_game.portal_pos # NoCell THEN {new_game.portal_pos} ELSE {})
       IN UNION {
            LET placed == [new_game EXCEPT
                             !.player_positions = positions,
                             !.level_complete = FALSE,
                             !.winner = NoUser,
                             !.game_over = FALSE,
                             !.zombie_move_counter = 0]
            IN {[placed EXCEPT !.zombies = zs] : zs \in GenerateZombies(placed)}
            : positions \in SpawnAll(new_game, new_game.players, exclude_positions, EmptyMap) }
       : fresh \in NewGame(previous_game.level + 1, NoUser, 0) }

(* ------------------------------ state ---------------------------------- *)
\* game: the Game object; call: the last call made on it; passes: the
\* collision passes of that call; calls: the calls that changed a session so
\* far; joins: the players that entered the current session so far
VARIABLES game, call, passes, calls, joins, prior, bot, loop, shop
vars == <<game, call, passes, calls, joins, prior, bot, loop, shop>>

\* no session: the previous_game of a call other than create_next_level
NoGame == [level |-> 0]

\* no adapter: the sessions of Spec and SpecHeld are called directly
NoBot == [active |-> 0]

\* no shop: nothing was bought or used
NoShop == [ledger |-> <<>>, op |-> "none"]

\* no placement loop under way
NoLoop == [name |-> "none", pc |-> "done", attempts |-> 0, blocked |-> {},
           want |-> 0, placed |-> <<>>, scanned |-> <<>>, result |-> NoCell,
           iterations |-> 0]

\* the record of a call: method, arguments and return value, the return
\* statement it left through (exit) and whether it assigned winner (won); a
\* call that returned False is recorded by its exit alone
Call(op, user_id, d, lives, exit) ==
  IF exit = "ok"
  THEN [op |-> op, user_id |-> user_id, d |-> d, lives |-> lives,
        previous_game |-> NoGame, ret |-> TRUE, exit |-> exit, won |-> FALSE]
  ELSE [op |-> op, user_id |-> NoUser, d |-> <<0, 0>>, lives |-> 0,
        previous_game |-> NoGame, ret |-> FALSE, exit |-> exit, won |-> FALSE]

\* the levels sessions are constructed at
StartLevels == {1, HighLevel}

\* Game(level, ...), with or without a first player
Init ==
  /\ \E lv \in StartLevels, first_player_id \in Users \cup {NoUser}, player_lives \in Lives :
       /\ first_player_id = NoUser => player_lives = 1
       /\ game \in NewGame(lv, first_player_id, player_lives)
       /\ call = Call("init", first_player_id, <<0, 0>>, player_lives, "ok")
  /\ passes = <<>>
  /\ calls = 0
  /\ joins = Len(game.players)
  /\ prior = NoGame
  /\ bot = NoBot
  /\ loop = NoLoop
  /\ shop = NoShop

\* game.move(user_id, dx, dy)
Move(user_id, d) ==
  IF MoveReturn(game, user_id, d) # "ok"
  THEN /\ call' = Call("move", user_id, d, 0, MoveReturn(game, user_id, d))
       /\ passes' = <<>>
       /\ UNCHANGED <<game, calls, joins>>
  ELSE LET before1 == Step(game, user_id, d)
           after1 == CheckZombieCollision(before1)
       IN \E second \in Tick(after1) :
            /\ calls < MaxCalls
            /\ calls' = calls + 1
            /\ game' = second[1]
            /\ passes' = PassLog(before1, after1, second)
            /\ call' = [Call("move", user_id, d, 0, "ok") EXCEPT
                          !.won = before1.winner # game.winner]
            /\ UNCHANGED joins

\* game.add_player(user_id, player_lives)
Join(user_id, player_lives) ==
  \E r \in AddPlayer(game, user_id, player_lives) :
    /\ r[2] = "ok" => calls < MaxCalls
    /\ game' = r[1]
    /\ call' = Call("add_player", user_id, <<0, 0>>, player_lives, r[2])
    /\ passes' = <<>>
    /\ calls' = IF r[2] = "ok" THEN calls + 1 ELSE calls
    /\ joins' = IF r[2] = "ok" THEN joins + 1 ELSE joins

\* game.remove_player(user_id)
Leave(user_id) ==
  /\ game' = RemovePlayerOf(game, user_id)
  /\ game' # game => calls < MaxCalls
  /\ call' = [Call("remove_player", user_id, <<0, 0>>, 0, "ok") EXCEPT
                !.user_id = IF game' # game THEN user_id ELSE NoUser]
  /\ passes' = <<>>
  /\ calls' = IF game' # game THEN calls + 1 ELSE calls
  /\ UNCHANGED joins

\* game = Game.create_next_level(game)
NextLevel ==
  /\ game.level < MaxLevel
  /\ calls < MaxCalls
  /\ game' \in CreateNextLevel(game)
  /\ call' = [Call("create_next_level", NoUser, <<0, 0>>, 0, "ok") EXCEPT
                !.previous_game = game]
  /\ passes' = <<>>
  /\ calls' = calls + 1
  /\ joins' = Len(game'.players)

Next ==
  \/ \E user_id \in Users, d \in Requests : Move(user_id, d) /\ UNCHANGED <<prior, bot, loop, shop>>
  \/ \E user_id \in Users, player_lives \in Lives :
       Join(user_id, player_lives) /\ UNCHANGED <<prior, bot, loop, shop>>
  \/ \E user_id \in Users : Leave(user_id) /\ UNCHANGED <<prior, bot, loop, shop>>
  \/ NextLevel /\ UNCHANGED <<prior, bot, loop, shop>>

Spec == Init /\ [][Next]_vars

(* ---------------- a caller that keeps the previous session ------------- *)
\* prior: the session handed to create_next_level, while the caller still
\* holds it beside the session returned (game); NoGame before that call, and
\* throughout Spec, whose caller lets the previous session go

\* create_next_level binding the life table of previous_game to the new
\* session instead of copying its entries
NextLevelSharesLives == {"player_lives"}

\* the tables of the session create_next_level returns that are the very
\* object previous_game holds: none. __init__ builds every table of the new
\* session, emojis, item_types and player_emojis_list are passed as copies,
\* and the loop over previous_game.players stores integers and strings entry
\* by entry and a new inventory dict per player
NextLevelShares == {}

\* a session after a call on a session it shares the tables `shares` with:
\* a table bound in both is one object, changed in place by the call
Through(other, after, shares) ==
  [f \in DOMAIN other |-> IF f \in shares THEN after[f] ELSE other[f]]

Sessions == {"new", "previous"}
SessionOf(session) == IF session = "new" THEN game ELSE prior

\* a call on one of the two sessions left it as `after`
Apply(session, after) ==
  /\ session = "previous" => prior # NoGame
  /\ after # SessionOf(session) => calls < HeldCalls
  /\ calls' = IF after # SessionOf(session) THEN calls + 1 ELSE calls
  /\ IF session = "new"
     THEN /\ game' = after
          /\ prior' = IF prior = NoGame THEN prior
                     ELSE Through(prior, after, NextLevelShares)
     ELSE /\ prior' = after
          /\ game' = Through(game, after, NextLevelShares)
  /\ UNCHANGED joins

\* session.move(user_id, dx, dy)
MoveIn(session, user_id, d) ==
  LET g == SessionOf(session)
  IN /\ session = "previous" => prior # NoGame
     /\ IF MoveReturn(g, user_id, d) # "ok"
        THEN /\ call' = Call("move", user_id, d, 0, MoveReturn(g, user_id, d))
             /\ passes' = <<>>
             /\ Apply(session, g)
        ELSE LET before1 == Step(g, user_id, d)
                 after1 == CheckZombieCollision(before1)
             IN \E second \in Tick(after1) :
                  /\ Apply(session, second[1])
                  /\ passes' = PassLog(before1, after1, second)
                  /\ call' = [Call("move", user_id, d, 0, "ok") EXCEPT
                                !.won = before1.winner # g.winner]

\* session.add_player(user_id, player_lives)
JoinIn(session, user_id, player_lives) ==
  /\ session = "previous" => prior # NoGame
  /\ \E r \in AddPlayer(SessionOf(session), user_id, player_lives) :
       /\ Apply(session, r[1])
       /\ call' = Call("add_player", user_id, <<0, 0>>, player_lives, r[2])
       /\ passes' = <<>>

\* session.remove_player(user_id)
LeaveIn(session, user_id) ==
  /\ session = "previous" => prior # NoGame
  /\ LET after == RemovePlayerOf(SessionOf(session), user_id)
     IN /\ Apply(session, after)
        /\ call' = [Call("remove_player", user_id, <<0, 0>>, 0, "ok") EXCEPT
                      !.user_id = IF after # SessionOf(session) THEN user_id ELSE NoUser]
        /\ passes' = <<>>

\* game = Game.create_next_level(prior), with prior the session played so far
NextLevelHeld ==
  /\ prior = NoGame
  /\ game.level < MaxLevel
  /\ calls < HeldCalls
  /\ game' \in CreateNextLevel(game)
  /\ prior' = Through(game, game', NextLevelShares)
  /\ call' = [Call("create_next_level", NoUser, <<0, 0>>, 0, "ok") EXCEPT
                !.previous_game = game]
  /\ passes' = <<>>
  /\ calls' = calls + 1
  /\ joins' = Len(game'.players)

NextHeld ==
  \/ \E session \in Sessions, user_id \in Users, d \in Displacements :
       MoveIn(session, user_id, d) /\ UNCHANGED <<bot, loop, shop>>
  \/ \E session \in Sessions, user_id \in Users, player_lives \in Lives :
       JoinIn(session, user_id, player_lives) /\ UNCHANGED <<bot, loop, shop>>
  \/ \E session \in Sessions, user_id \in Users :
       LeaveIn(session, user_id) /\ UNCHANGED <<bot, loop, shop>>
  \/ NextLevelHeld /\ UNCHANGED <<bot, loop, shop>>

SpecHeld == Init /\ [][NextHeld]_vars

(* --------------------- the adapter: on_reaction_add -------------------- *)
\* bot: the adapter's state for one game message.
\*   sessions: the Game objects created so far; active: the one installed in
\*   active_games[message_id] (game is that session); game_players: the ids
\*   joined; wins: the persistent "wins" stat; handlers: the on_reaction_add
\*   tasks, each with its position (pc), the session its local `game` names
\*   and the reacting user; credited, created, late_moves: per session, the
\*   increments of the wins stat, the create_next_level calls and the
\*   game.move calls made while a handler was suspended between detecting its
\*   completion and installing the next level

\* game.move on g: the sessions it may leave (g itself when it returns False)
MoveResults(g, user_id, d) ==
  IF MoveReturn(g, user_id, d) # "ok" THEN {g}
  ELSE {second[1] : second \in Tick(CheckZombieCollision(Step(g, user_id, d)))}

\* the sessions after at most n more moves, each handled to its end before
\* the next reaction arrives, none of which completed the level or ended
\* the game
RECURSIVE PlayedFrom(_, _)
PlayedFrom(gs, n) ==
  IF n = 0 THEN gs
  ELSE gs \cup PlayedFrom(
         {h \in UNION {MoveResults(g, u, d) : g \in gs, u \in Users, d \in Displacements} :
            ~h.level_complete /\ ~h.game_over}, n - 1)

\* positions of a handler: not started, suspended at one of its awaits, ended
Pending == {"fetch_user", "announce", "sleep"}
IdleHandler == [pc |-> "idle", game |-> 0, user |-> NoUser]

\* /play: Game(level=1, first_player_id=user_id), installed with its creator
\* joined; then the moves played before the run
InitBot ==
  /\ \E user_id \in Users :
       \E first \in NewGame(1, user_id, MaxLives) :
         /\ first.players # <<>>
         /\ game \in PlayedFrom({first}, PlayedMoves)
         /\ bot = [sessions |-> <<game>>,
                   active |-> 1,
                   game_players |-> {user_id},
                   wins |-> [u \in Users |-> 0],
                   credited |-> <<0>>,
                   created |-> <<0>>,
                   late_moves |-> <<0>>,
                   handlers |-> [h \in 1..BotHandlers |-> IdleHandler]]
  /\ call = Call("init", NoUser, <<0, 0>>, 0, "ok")
  /\ passes = <<>>
  /\ calls = 0
  /\ joins = 0
  /\ prior = NoGame
  /\ loop = NoLoop
  /\ shop = NoShop

\* handler h is the next task to start
Starts(h) ==
  /\ bot.handlers[h].pc = "idle"
  /\ \A k \in 1..(h - 1) : bot.handlers[k].pc # "idle"

\* another handler is suspended between detecting the completion of session
\* i and installing its next level
Suspended(h, i) ==
  \E k \in DOMAIN bot.handlers :
    k # h /\ bot.handlers[k].game = i /\ bot.handlers[k].pc \in Pending

\* on_reaction_add for a movement reaction, up to its first await
MoveReaction(h, user_id, d) ==
  /\ Starts(h)
  /\ LET i == bot.active
         g == bot.sessions[i]
         at(pc) == [bot.handlers EXCEPT ![h] = [pc |-> pc, game |-> i, user |-> user_id]]
     IN IF user_id \notin bot.game_players
        THEN bot' = [bot EXCEPT !.handlers = at("remove_reaction")]
        ELSE IF g.game_over
        THEN bot' = [bot EXCEPT !.handlers = at("edit")]
        ELSE \E moved \in MoveResults(g, user_id, d) :
               LET late == IF Suspended(h, i) THEN 1 ELSE 0
               IN IF moved.level_complete /\ moved.winner # NoUser
                  THEN bot' = [bot EXCEPT
                                 !.sessions[i] = moved,
                                 !.wins[moved.winner] = @ + 1,
                                 !.credited[i] = @ + 1,
                                 !.late_moves[i] = @ + late,
                                 !.handlers = at("fetch_user")]
                  ELSE bot' = [bot EXCEPT
                                 !.sessions[i] = moved,
                                 !.late_moves[i] = @ + late,
                                 !.handlers = at("edit")]
  /\ game' = bot'.sessions[bot'.active]
  /\ UNCHANGED <<call, passes, calls, joins, prior, loop, shop>>

\* on_reaction_add for the join reaction, up to its first await or return
JoinReaction(h, user_id) ==
  /\ Starts(h)
  /\ LET i == bot.active
         g == bot.sessions[i]
         at(pc) == [bot.handlers EXCEPT ![h] = [pc |-> pc, game |-> i, user |-> user_id]]
     IN IF user_id \in bot.game_players \/ g.game_over
        THEN bot' = [bot EXCEPT !.handlers = at("remove_reaction")]
        ELSE \E r \in AddPlayer(g, user_id, MaxLives) :
               IF r[2] = "ok"
               THEN bot' = [bot EXCEPT
                              !.sessions[i] = r[1],
                              !.game_players = @ \cup {user_id},
                              !.handlers = at("edit")]
               ELSE bot' = [bot EXCEPT !.handlers = at("done")]
  /\ game' = bot'.sessions[bot'.active]
  /\ UNCHANGED <<call, passes, calls, joins, prior, loop, shop>>

\* handler h resumes from an await that changes nothing of the adapter:
\* bot.fetch_user, message.edit, remove_reaction
Resume(h) ==
  /\ bot.handlers[h].pc \in {"fetch_user", "announce", "edit", "remove_reaction"}
  /\ bot' = [bot EXCEPT !.handlers[h].pc =
               CASE @ = "fetch_user" -> "announce"
                 [] @ = "announce" -> "sleep"
                 [] @ = "edit" -> "remove_reaction"
                 [] OTHER -> "done"]
  /\ UNCHANGED <<game, call, passes, calls, joins, prior, loop, shop>>

\* handler h resumes from asyncio.sleep(2): create_next_level on the session
\* it holds, and the result installed in active_games
Advance(h) ==
  /\ bot.handlers[h].pc = "sleep"
  /\ LET i == bot.handlers[h].game
     IN \E new_game \in CreateNextLevel(bot.sessions[i]) :
          bot' = [bot EXCEPT
                    !.sessions = Append(@, new_game),
                    !.active = Len(bot.sessions) + 1,
                    !.credited = Append(@, 0),
                    !.created = Append([@ EXCEPT ![i] = @ + 1], 0),
                    !.late_moves = Append(@, 0),
                    !.handlers[h].pc = "edit"]
  /\ game' = bot'.sessions[bot'.active]
  /\ UNCHANGED <<call, passes, calls, joins, prior, loop, shop>>

NextBot ==
  \/ \E h \in 1..BotHandlers, user_id \in Users, d \in Displacements :
       MoveReaction(h, user_id, d)
  \/ \E h \in 1..BotHandlers, user_id \in Users : JoinReaction(h, user_id)
  \/ \E h \in 1..BotHandlers : Resume(h)
  \/ \E h \in 1..BotHandlers : Advance(h)

SpecBot == InitBot /\ [][NextBot]_vars

(* ------------------- the placement loops, step by step ----------------- *)
\* loop: the placement loop under way.
\*   name: the method; pc: "random" in the loop of random draws, "scan" in
\*   the row-major fallback, "done" returned; attempts: iterations of the
\*   random loop so far; blocked: the cells it refuses; want: the number of
\*   cells it is to place; placed: the cells placed; scanned: the cells the
\*   fallback has visited, in order; result: the cell returned by a method
\*   that places one cell (NoCell for None); iterations: the loop bodies
\*   executed, in the random loop and in the scan

Placements == {"_generate_obstacles", "_generate_start_position",
               "_generate_items", "_generate_portal", "_generate_zombies"}
\* the methods that return one cell and fall back to a scan
Single == {"_generate_start_position", "_generate_portal"}

\* max_attempts of each method
MaxAttempts(name) ==
  CASE name = "_generate_obstacles" -> 100
    [] name = "_generate_start_position" -> 200
    [] name = "_generate_items" -> 200
    [] name = "_generate_portal" -> 100
    [] OTHER -> 200

\* the numbers of cells a method may be asked for at level lv:
\* obstacle_count, required_items_count + randint(2, 4),
\* randint(min_zombies, max_zombies), one cell
Wants(name, lv) ==
  CASE name = "_generate_obstacles" -> {LevelConfig(lv)[5]}
    [] name = "_generate_items" ->
         {required + surplus : required \in LevelConfig(lv)[1]..LevelConfig(lv)[2],
                               surplus \in 2..4}
    [] name = "_generate_zombies" -> ZombieCount(lv)[1]..ZombieCount(lv)[2]
    [] OTHER -> {1}

LastCell == <<Width - 1, Height - 1>>
DrawnCells == {c \in Cells : Idx(c) < LoopDrawn - 1} \cup {LastCell}
\* the grids a loop may meet: nothing blocked, one free cell that the scan
\* reaches last, no free cell
BlockedSets == {{}, Cells \ {LastCell}, Cells}

\* the test at the head of the random loop, and where control goes
LoopTest(l) ==
  IF l.name \in Single
  THEN IF l.attempts < MaxAttempts(l.name) THEN [l EXCEPT !.pc = "random"]
       ELSE IF Cells = {} THEN [l EXCEPT !.pc = "done"]
       ELSE [l EXCEPT !.pc = "scan"]
  ELSE IF Len(l.placed) < l.want /\ l.attempts < MaxAttempts(l.name)
       THEN [l EXCEPT !.pc = "random"]
       ELSE [l EXCEPT !.pc = "done"]

\* one iteration of the random loop that leaves the attempt uncounted when
\* the drawn cell is refused
AttemptUncounted(l, pos) ==
  IF l.name = "_generate_obstacles"
  THEN LoopTest([l EXCEPT !.placed = IF pos \in Range(@) THEN @ ELSE Append(@, pos),
                      !.attempts = @ + 1])
  ELSE IF l.name = "_generate_start_position"
  THEN IF pos \notin l.blocked
       THEN [l EXCEPT !.attempts = @ + 1, !.result = pos, !.pc = "done"]
       ELSE LoopTest(l)
  ELSE IF l.name = "_generate_portal"
  THEN IF pos \notin l.blocked
       THEN [l EXCEPT !.result = pos, !.pc = "done"]
       ELSE LoopTest(l)
  ELSE IF l.name = "_generate_items"
  THEN IF pos \notin l.blocked
       THEN LoopTest([l EXCEPT !.placed = IF pos \in Range(@) THEN @ ELSE Append(@, pos),
                           !.attempts = @ + 1])
       ELSE LoopTest(l)
  ELSE IF pos \notin l.blocked
       THEN LoopTest([l EXCEPT !.placed = Append(@, pos),
                           !.blocked = @ \cup {pos},
                           !.attempts = @ + 1])
       ELSE LoopTest(l)

\* one iteration of the random loop with the cell pos drawn
Attempt(l, pos) ==
  IF l.name = "_generate_obstacles"
  THEN \* obstacles.add((x, y)); max_attempts -= 1
       LoopTest([l EXCEPT !.placed = IF pos \in Range(@) THEN @ ELSE Append(@, pos),
                      !.attempts = @ + 1])
  ELSE IF l.name = "_generate_start_position"
  THEN \* for _ in range(max_attempts): return at the first free cell
       IF pos \notin l.blocked
       THEN [l EXCEPT !.attempts = @ + 1, !.result = pos, !.pc = "done"]
       ELSE LoopTest([l EXCEPT !.attempts = @ + 1])
  ELSE IF l.name = "_generate_portal"
  THEN \* return at the first free cell, else attempts += 1
       IF pos \notin l.blocked
       THEN [l EXCEPT !.result = pos, !.pc = "done"]
       ELSE LoopTest([l EXCEPT !.attempts = @ + 1])
  ELSE IF l.name = "_generate_items"
  THEN \* items[pos] = item_type on a free cell; attempts += 1
       LoopTest([l EXCEPT !.placed = IF pos \in l.blocked \/ pos \in Range(@)
                                 THEN @ ELSE Append(@, pos),
                      !.attempts = @ + 1])
  ELSE \* zombies.append(pos); blocked_positions.add(pos); attempts += 1
       LoopTest([l EXCEPT !.placed = IF pos \in l.blocked THEN @ ELSE Append(@, pos),
                      !.blocked = IF pos \in l.blocked THEN @ ELSE @ \cup {pos},
                      !.attempts = @ + 1])

\* one iteration of the fallback scan: the next cell in row-major order
Visit(l) ==
  LET pos == CHOOSE c \in Cells : Idx(c) = Len(l.scanned)
      seen == [l EXCEPT !.scanned = Append(@, pos)]
  IN IF pos \notin l.blocked THEN [seen EXCEPT !.result = pos, !.pc = "done"]
     ELSE IF Len(seen.scanned) = Width * Height THEN [seen EXCEPT !.pc = "done"]
     ELSE seen

InitLoops ==
  /\ loop = NoLoop
  /\ shop = NoShop
  /\ game = NoGame
  /\ call = Call("init", NoUser, <<0, 0>>, 0, "ok")
  /\ passes = <<>>
  /\ calls = 0
  /\ joins = 0
  /\ prior = NoGame
  /\ bot = NoBot

\* a placement method is called
Begin(name, lv, blocked) ==
  /\ loop.pc = "done"
  /\ \E want \in Wants(name, lv) :
       loop' = LoopTest([name |-> name, pc |-> "random", attempts |-> 0,
                     blocked |-> IF name = "_generate_obstacles" THEN {} ELSE blocked,
                     want |-> want, placed |-> <<>>, scanned |-> <<>>,
                     result |-> NoCell, iterations |-> 0])
  /\ UNCHANGED <<game, call, passes, calls, joins, prior, bot, shop>>

\* random.randint(0, width - 1), random.randint(0, height - 1) and the body
\* of the random loop
Draw(pos) ==
  /\ loop.pc = "random"
  /\ loop' = [Attempt(loop, pos) EXCEPT !.iterations = @ + 1]
  /\ UNCHANGED <<game, call, passes, calls, joins, prior, bot, shop>>

Scan ==
  /\ loop.pc = "scan"
  /\ loop' = [Visit(loop) EXCEPT !.iterations = @ + 1]
  /\ UNCHANGED <<game, call, passes, calls, joins, prior, bot, shop>>

NextLoops ==
  \/ \E name \in Placements, lv \in 1..MaxLevel, blocked \in BlockedSets :
       Begin(name, lv, blocked)
  \/ \E pos \in DrawnCells : Draw(pos)
  \/ Scan

SpecLoops == InitLoops /\ [][NextLoops]_vars

(* ------------------------------- the shop ------------------------------ *)
\* shop: the inventory file of one guild and the last call on it.
\*   ledger: the stored JSON object, user id -> (item id -> count);
\*   op, user_id, item_id, player_xp, ret: the last call and what it returned

\* SHOP_ITEMS: cost and max_stack
SHOP_ITEMS ==
  [shield |-> [cost |-> 500, max_stack |-> 10],
   extra_heart |-> [cost |-> 750, max_stack |-> 5],
   speed_boost |-> [cost |-> 1000, max_stack |-> 5]]
\* the item ids a caller may pass: the shop's and one the shop does not sell
ItemIds == DOMAIN SHOP_ITEMS \cup {"potion"}
\* the XP a caller may pass: none, and each cost met or missed by one
XpValues == {0} \cup UNION {{SHOP_ITEMS[i].cost - 1, SHOP_ITEMS[i].cost} : i \in DOMAIN SHOP_ITEMS}
Buyers == 1..ShopUsers

\* inventory[user_id_str].get(item_id, 0), with no entry when the user has none
StoredCount(ledger, user_id, item_id) ==
  IF user_id \notin DOMAIN ledger THEN 0
  ELSE IF item_id \notin DOMAIN ledger[user_id] THEN 0
  ELSE ledger[user_id][item_id]

\* save_inventory: the file written, the file left alone when it cannot be
\* opened, the file cut short (and read back as empty) when the write fails
\* after the file was opened; with the value returned
SaveInventory(ledger, inventory) ==
  {<<inventory, TRUE>>, <<ledger, FALSE>>, <<(<<>>), FALSE>>}

\* purchase_item: the ledgers it may leave, each with the success flag
PurchaseItem(ledger, user_id, item_id, player_xp) ==
  IF item_id \notin DOMAIN SHOP_ITEMS THEN {<<ledger, FALSE>>}
  ELSE IF player_xp < SHOP_ITEMS[item_id].cost THEN {<<ledger, FALSE>>}
  ELSE LET current_count == StoredCount(ledger, user_id, item_id)
           mine == IF user_id \in DOMAIN ledger THEN ledger[user_id] ELSE <<>>
       IN IF current_count >= SHOP_ITEMS[item_id].max_stack THEN {<<ledger, FALSE>>}
          ELSE SaveInventory(ledger,
                 Put(ledger, user_id, Put(mine, item_id, current_count + 1)))

\* use_item that stores the count it reaches, zero included
UseItemKeepingZero(ledger, user_id, item_id) ==
  IF user_id \notin DOMAIN ledger THEN {<<ledger, FALSE>>}
  ELSE LET current_count == StoredCount(ledger, user_id, item_id)
       IN IF current_count <= 0 THEN {<<ledger, FALSE>>}
          ELSE SaveInventory(ledger,
                 Put(ledger, user_id, Put(ledger[user_id], item_id, current_count - 1)))

\* use_item: the ledgers it may leave, each with the value returned
UseItem(ledger, user_id, item_id) ==
  IF user_id \notin DOMAIN ledger THEN {<<ledger, FALSE>>}
  ELSE LET current_count == StoredCount(ledger, user_id, item_id)
       IN IF current_count <= 0 THEN {<<ledger, FALSE>>}
          ELSE SaveInventory(ledger,
                 Put(ledger, user_id,
                     IF current_count - 1 = 0 THEN Del(ledger[user_id], item_id)
                     ELSE Put(ledger[user_id], item_id, current_count - 1)))

InitShop ==
  /\ shop = NoShop
  /\ game = NoGame
  /\ call = Call("init", NoUser, <<0, 0>>, 0, "ok")
  /\ passes = <<>>
  /\ calls = 0
  /\ joins = 0
  /\ prior = NoGame
  /\ bot = NoBot
  /\ loop = NoLoop

Purchase(user_id, item_id, player_xp) ==
  /\ \E r \in PurchaseItem(shop.ledger, user_id, item_id, player_xp) :
       shop' = [ledger |-> r[1], op |-> "purchase_item", user_id |-> user_id,
                item_id |-> item_id, player_xp |-> player_xp, ret |-> r[2]]
  /\ UNCHANGED <<game, call, passes, calls, joins, prior, bot, loop>>

Use(user_id, item_id) ==
  /\ \E r \in UseItem(shop.ledger, user_id, item_id) :
       shop' = [ledger |-> r[1], op |-> "use_item", user_id |-> user_id,
                item_id |-> item_id, player_xp |-> 0, ret |-> r[2]]
  /\ UNCHANGED <<game, call, passes, calls, joins, prior, bot, loop>>

NextShop ==
  \/ \E user_id \in Buyers, item_id \in ItemIds, player_xp \in XpValues :
       Purchase(user_id, item_id, player_xp)
  \/ \E user_id \in Buyers, item_id \in ItemIds : Use(user_id, item_id)

SpecShop == InitShop /\ [][NextShop]_vars

(* ============================ properties =============================== *)
Active(g) == DOMAIN g.player_positions
Total(g, u) == Sum(g.collected_items[u])
\* the call that led to the state was an accepted move
AcceptedMove == call.op = "move" /\ call.ret

\* the five rejections the movement contract lists, for move(u, d) on g
Blocked(g, u, d) ==
  \/ g.game_over
  \/ u \notin Range(g.players)
  \/ /\ u \in Active(g)
     /\ LET target == Plus(g.player_positions[u], d)
        IN \/ ~InBounds(target)
           \/ target \in g.obstacles
           \/ \E v \in Active(g) \ {u} : g.player_positions[v] = target

\* C1: a move that meets one of the five rejections (game over, player not
\* in the roster, target out of bounds, target an obstacle, target occupied
\* by another active player) returns False and leaves the session unchanged:
\* no move that returns True met one of them, and a move that returns False
\* changes no field of the session.
C1_RejectedMoveChangesNothing ==
  [][call'.op = "move" =>
       IF call'.ret THEN ~Blocked(game, call'.user_id, call'.d)
       ELSE game' = game]_vars

\* a move was rejected because another active player stands on the target
C1_Witness == call.op = "move" /\ ~call.ret /\ call.exit = "occupied"

\* C2: no two distinct active players have the same coordinate.
C2_NoSharedCell ==
  \A u \in Active(game), v \in Active(game) :
    u # v => game.player_positions[u] # game.player_positions[v]

\* two players were carried to the next level and given spawn cells
C2_Witness == call.op = "create_next_level" /\ Cardinality(Active(game)) = 2

\* C3: every active player's coordinate is inside the grid and is not an
\* obstacle cell.
C3_PlayersOnFreeGround ==
  \A u \in Active(game) :
    InBounds(game.player_positions[u]) /\ game.player_positions[u] \notin game.obstacles

\* an accepted move has put its player next to an obstacle and the border
C3_Witness ==
  /\ AcceptedMove
  /\ call.user_id \in Active(game)
  /\ \E d1 \in Displacements, d2 \in Displacements :
       /\ Plus(game.player_positions[call.user_id], d1) \in game.obstacles
       /\ ~InBounds(Plus(game.player_positions[call.user_id], d2))

\* C4: once winner is set, no later move changes winner or any win counter.
C4_WinnerAssignedOnce ==
  [][game.winner # NoUser /\ call'.op = "move" =>
       game'.winner = game.winner /\ game'.player_wins = game.player_wins]_vars

\* a player holding the required items made an accepted move onto the portal
\* that did not assign winner: a winner existed already
C4_Witness ==
  /\ AcceptedMove
  /\ ~call.won
  /\ game.winner # NoUser
  /\ call.user_id \in Active(game)
  /\ game.player_positions[call.user_id] = game.portal_pos
  /\ CanReachPortal(game, call.user_id)

\* the accepted move recorded in c takes its player from g onto the portal
OntoPortal(g, c) ==
  /\ c.op = "move"
  /\ c.ret
  /\ Plus(g.player_positions[c.user_id], c.d) = g.portal_pos

\* C5: an accepted move onto the portal by a player whose inventory total is
\* at least required_items_count, with no winner yet, makes that player the
\* winner, completes the level, adds exactly one to that player's win counter
\* and changes no other win counter.
C5_QualifiedArrivalWins ==
  [][(/\ OntoPortal(game, call')
      /\ Total(game, call'.user_id) >= game.required_items_count
      /\ game.winner = NoUser)
     => /\ game'.winner = call'.user_id
        /\ game'.level_complete
        /\ game'.player_wins =
             [game.player_wins EXCEPT ![call'.user_id] = @ + 1]]_vars

\* an accepted move made its player the winner, with one win
C5_Witness ==
  /\ AcceptedMove
  /\ call.won
  /\ game.winner = call.user_id
  /\ game.player_wins[call.user_id] = 1

\* C6: an accepted move onto the portal by a player whose own inventory
\* total is below required_items_count does not complete the level, whatever
\* the other players hold.
C6_UnqualifiedArrivalWinsNothing ==
  [][(/\ OntoPortal(game, call')
      /\ Total(game, call'.user_id) < game.required_items_count
      /\ game.winner = NoUser
      /\ ~game.level_complete)
     => game'.winner = NoUser /\ ~game'.level_complete]_vars

\* a player below the threshold stepped onto the portal while another active
\* player held the required items, and no winner exists
C6_Witness ==
  /\ AcceptedMove
  /\ call.user_id \in Active(game)
  /\ game.player_positions[call.user_id] = game.portal_pos
  /\ Total(game, call.user_id) < game.required_items_count
  /\ \E v \in Active(game) \ {call.user_id} : CanReachPortal(game, v)
  /\ game.winner = NoUser
  /\ ~game.level_complete

\* C7: level_complete is true if and only if winner is set.
C7_CompleteIffWinner == game.level_complete <=> game.winner # NoUser

\* a level was completed
C7_Witness == game.level_complete /\ game.winner # NoUser

\* C8: in a session reached by add_player, move and remove_player alone (the
\* constructed session, still at its first level), game_over implies that the
\* roster is empty and no player has a position.
C8_GameOverMeansEmptyRoster ==
  game.level = 1 /\ game.game_over => game.players = <<>> /\ Active(game) = {}

\* what one collision pass does to the lives of the players of before
PassTakesOneLife(before, after) ==
  \A u \in Active(before) :
    LET lives == before.player_lives[u]
    IN IF before.player_positions[u] \in Range(before.zombies)
       THEN IF lives - 1 > 0
            THEN u \in Active(after) /\ after.player_lives[u] = lives - 1
            ELSE u \notin Active(after) /\ u \notin DOMAIN after.player_lives
       ELSE u \in Active(after) /\ after.player_lives[u] = lives

\* C9: a collision pass takes exactly one life from every active player on
\* a cell with at least one zombie, however many zombies are there (a player
\* left with no life is eliminated), and leaves the other players' lives
\* unchanged.
C9_PassTakesOneLife ==
  \A i \in DOMAIN passes : PassTakesOneLife(passes[i].before, passes[i].after)

\* a pass found two zombies on the cell of a player, who lost one life and
\* stayed in the game
C9_Witness ==
  \E i \in DOMAIN passes :
    \E u \in Active(passes[i].before) :
      /\ Cardinality({k \in DOMAIN passes[i].before.zombies :
            passes[i].before.zombies[k] = passes[i].before.player_positions[u]}) >= 2
      /\ u \in Active(passes[i].after)
      /\ passes[i].after.player_lives[u] = passes[i].before.player_lives[u] - 1

\* C10: after an accepted move no active player shares a cell with a zombie.
C10_NoZombieOnPlayerAfterMove ==
  AcceptedMove =>
    \A u \in Active(game) : game.player_positions[u] \notin Range(game.zombies)

\* on the tick of an accepted move a zombie stepped onto a player, who is
\* still in the game, and another zombie is left
C10_Witness ==
  /\ AcceptedMove
  /\ Len(passes) = 2
  /\ \E u \in Active(passes[2].before) :
       /\ passes[2].before.player_positions[u] \in Range(passes[2].before.zombies)
       /\ u \in Active(game)
  /\ game.zombies # <<>>

\* the player u of before was on a cell with a zombie when the pass started
Hit(before, u) == before.player_positions[u] \in Range(before.zombies)

\* the life tables a move goes through: before the call, around each of its
\* collision passes, after the call
LifeChain(g, ps, h) ==
  <<g.player_lives>> \o
  [i \in 1..(2 * Len(ps)) |->
     IF i % 2 = 1 THEN ps[(i + 1) \div 2].before.player_lives
     ELSE ps[i \div 2].after.player_lives] \o
  <<h.player_lives>>

\* C11: the life count of a player who joined with at least one life is at
\* least 1 while the player is active; through a move it changes only inside
\* the collision passes, each of which leaves it alone or takes exactly one
\* life, and a pass eliminates a player exactly when it takes the last life
\* (the count reaches zero, never less).
C11_LivesFallByOneToZero ==
  [][/\ \A u \in Active(game) : game.player_lives[u] >= 1
     /\ \A u \in Active(game') : game'.player_lives[u] >= 1
     /\ call'.op = "move" /\ call'.ret =>
          LET chain == LifeChain(game, passes', game')
          IN /\ \A i \in 1..(Len(chain) - 1) :
                  i % 2 = 1 => chain[i + 1] = chain[i]
             /\ \A i \in DOMAIN passes' : \A u \in Active(passes'[i].before) :
                  LET lives == passes'[i].before.player_lives[u]
                      after == passes'[i].after
                  IN IF u \in Active(after)
                     THEN /\ after.player_lives[u] \in {lives, lives - 1}
                          /\ after.player_lives[u] >= 1
                     ELSE lives - 1 = 0 /\ Hit(passes'[i].before, u)]_vars

\* one move took a life from a player in each of its two collision passes;
\* the second was the last life and the player was eliminated
C11_Witness ==
  /\ AcceptedMove
  /\ Len(passes) = 2
  /\ \E u \in Active(passes[1].before) :
       /\ Hit(passes[1].before, u)
       /\ passes[1].before.player_lives[u] = 2
       /\ u \in Active(passes[2].before)
       /\ passes[2].before.player_lives[u] = 1
       /\ Hit(passes[2].before, u)
       /\ u \notin Active(passes[2].after)

\* the pass from before took the last life of player u
LastLifeTaken(before, u) ==
  u \in Active(before) /\ Hit(before, u) /\ before.player_lives[u] - 1 = 0

\* C12: a player whose life count a collision pass brings to zero is gone
\* from the roster and from the position, inventory and life tables after
\* the pass, with the win counter kept as it was; and a pass that leaves no
\* active player sets game_over.
C12_EliminationKeepsWins ==
  \A i \in DOMAIN passes :
    LET before == passes[i].before
        after == passes[i].after
    IN /\ \A u \in Active(before) :
            LastLifeTaken(before, u) =>
              /\ u \notin Range(after.players)
              /\ u \notin DOMAIN after.player_positions
              /\ u \notin DOMAIN after.collected_items
              /\ u \notin DOMAIN after.player_lives
              /\ u \in DOMAIN after.player_wins
              /\ after.player_wins[u] = before.player_wins[u]
       /\ Active(after) = {} => after.game_over

\* a pass eliminated the last active player, who had won the level: the win
\* is still on record and the session is over
C12_Witness ==
  \E i \in DOMAIN passes : \E u \in Active(passes[i].before) :
    /\ LastLifeTaken(passes[i].before, u)
    /\ passes[i].before.player_wins[u] = 1
    /\ game.player_wins[u] = 1
    /\ Active(game) = {}
    /\ game.game_over

\* the item map h is the item map g without the cells in gone
ItemsLeft(g, h, gone) ==
  /\ DOMAIN h.items = DOMAIN g.items \ gone
  /\ \A c \in DOMAIN h.items : h.items[c] = g.items[c]

\* C13: an accepted move onto an item cell adds exactly one to the mover's
\* count of that kind (and nothing to any other count or player) and takes
\* the item off the field; a mover still active after the call holds that
\* inventory; an accepted move onto any other cell leaves the item map and the
\* inventories as they were; and no call on a session adds an item or changes
\* the kind or cell of one that is left.
C13_ItemsAreConsumed ==
  [][/\ call'.op # "create_next_level" => ItemsLeft(game, game', DOMAIN game.items \ DOMAIN game'.items)
     /\ call'.op = "move" /\ call'.ret =>
          LET u == call'.user_id
              target == Plus(game.player_positions[u], call'.d)
              stepped == passes'[1].before
              held == IF target \in DOMAIN game.items
                      THEN [game.collected_items[u] EXCEPT ![game.items[target]] = @ + 1]
                      ELSE game.collected_items[u]
          IN /\ ItemsLeft(game, game', {target})
             /\ stepped.collected_items = [game.collected_items EXCEPT ![u] = held]
             /\ \A v \in Active(game') :
                  game'.collected_items[v] = stepped.collected_items[v]]_vars

\* the first two calls on a session were moves of one player onto two item
\* cells: the player holds two items and the field has two fewer
C13_Witness ==
  /\ AcceptedMove
  /\ calls = 2
  /\ call.user_id \in Active(game)
  /\ Total(game, call.user_id) = 2
  /\ game.player_positions[call.user_id] \notin DOMAIN game.items
  /\ \E f \in Fields(game.level) :
       Cardinality(DOMAIN game.items) = Cardinality(DOMAIN f.items) - 2

\* the zombie list zs is the list ws with some zombies taken out
OnlyRemoved(ws, zs) ==
  \E gone \in SUBSET Range(ws) : zs = SelectSeq(ws, LAMBDA z : z \notin gone)

\* the zombie list zs is the list ws after one run of the zombie step: each
\* zombie is where it was or on a neighbouring cell
OneRun(ws, zs) ==
  /\ Len(zs) = Len(ws)
  /\ \A i \in DOMAIN ws : Manhattan(ws[i], zs[i]) <= 1

\* C14: the tick counter is 0 or 1 between calls; a rejected move leaves the
\* counter and the zombies alone; an accepted move at counter 0 sets it to 1
\* and moves no zombie (zombies are only removed, by its one collision pass);
\* an accepted move at counter 1 resets it to 0 and runs the zombie step
\* exactly once, between its two collision passes.
C14_ZombiesMoveEverySecondMove ==
  [][/\ game.zombie_move_counter \in {0, 1}
     /\ game'.zombie_move_counter \in {0, 1}
     /\ call'.op = "move" /\ ~call'.ret =>
          /\ game'.zombie_move_counter = game.zombie_move_counter
          /\ game'.zombies = game.zombies
     /\ call'.op = "move" /\ call'.ret /\ game.zombie_move_counter = 0 =>
          /\ game'.zombie_move_counter = 1
          /\ Len(passes') = 1
          /\ OnlyRemoved(game.zombies, game'.zombies)
     /\ call'.op = "move" /\ call'.ret /\ game.zombie_move_counter = 1 =>
          /\ game'.zombie_move_counter = 0
          /\ Len(passes') = 2
          /\ OnlyRemoved(game.zombies, passes'[1].after.zombies)
          /\ OneRun(passes'[1].after.zombies, passes'[2].before.zombies)
          /\ OnlyRemoved(passes'[2].before.zombies, game'.zombies)]_vars

\* the second accepted move since the counter was reset, by another player
\* than the first, moved a zombie and reset the counter
C14_Witness ==
  /\ AcceptedMove
  /\ game.zombie_move_counter = 0
  /\ Len(passes) = 2
  /\ \E i \in DOMAIN passes[1].after.zombies :
       Manhattan(passes[1].after.zombies[i], passes[2].before.zombies[i]) = 1
  /\ calls = 3
  /\ Cardinality(Active(game)) = 2
  /\ game.level = 1
  /\ \E u \in Active(game) : u # call.user_id /\ Total(game, u) = 1

\* C15: when the first collision pass of a move leaves no active player, the
\* zombie step of that move's tick leaves the zombie list as it was, and so
\* does the collision pass after it.
C15_NoPlayersNoZombieMove ==
  Len(passes) = 2 /\ Active(passes[1].after) = {} =>
    /\ passes[2].before.zombies = passes[1].after.zombies
    /\ passes[2].after.zombies = passes[1].after.zombies
    /\ game.zombies = passes[1].after.zombies

\* a move eliminated the last player in its first collision pass, its tick
\* ran the zombie step, and a zombie was there to move
C15_Witness ==
  /\ AcceptedMove
  /\ Len(passes) = 2
  /\ Active(passes[1].before) # {}
  /\ Active(passes[1].after) = {}
  /\ game.zombies # <<>>
  /\ game.zombie_move_counter = 0

\* the cells of g free of obstacles, players, items and the portal
FreeOfAll(g) ==
  Cells \ (g.obstacles \cup Values(g.player_positions) \cup DOMAIN g.items \cup {g.portal_pos})

\* C16: add_player for an id that is already active, or on a session with no
\* cell free of obstacles, players, items and the portal, returns False: no
\* add_player that returns True met either case, and an add_player that
\* returns False changes no field of the session.
C16_RejectedJoinChangesNothing ==
  [][call'.op = "add_player" =>
       IF call'.ret
       THEN call'.user_id \notin Active(game) /\ FreeOfAll(game) # {}
       ELSE game' = game]_vars

\* add_player was refused for want of a free cell, on a session with a
\* player on it
C16_Witness ==
  /\ call.op = "add_player"
  /\ ~call.ret
  /\ call.exit = "full"
  /\ FreeOfAll(game) = {}
  /\ Active(game) # {}

\* C17: a successful add_player gives the joining player the palette index
\* (number of players that entered the session before it) modulo the palette
\* size, whether or not earlier players were eliminated or removed since.
C17_IdentityFollowsJoinCount ==
  [][call'.op = "add_player" /\ call'.ret =>
       game'.player_emojis[call'.user_id] = joins % PaletteSize]_vars

\* the state is the session create_next_level has just returned
NextLevelReturned == call.op = "create_next_level"

\* C18: the session create_next_level returns has the roster of the previous
\* session, in the same order; every carried player has the life count, the
\* win counter and the identity held in the previous session and an
\* inventory of zeros; and the tables hold nothing of anybody else, so
\* nothing of a player eliminated in the previous session.
C18_NextLevelCarriesRoster ==
  NextLevelReturned =>
    LET prev == call.previous_game
        carried == Range(prev.players)
    IN /\ game.players = prev.players
       /\ \A u \in carried :
            /\ game.player_lives[u] = prev.player_lives[u]
            /\ game.player_wins[u] = prev.player_wins[u]
            /\ game.player_emojis[u] = prev.player_emojis[u]
            /\ game.collected_items[u] = EmptyInventory
       /\ DOMAIN game.player_lives = carried
       /\ DOMAIN game.player_wins = carried
       /\ DOMAIN game.player_emojis = carried
       /\ DOMAIN game.collected_items = carried
       /\ Active(game) \subseteq carried

\* create_next_level was called on a session where one player had been
\* eliminated and the other held an item: the first is not carried, the
\* second is
C18_Witness ==
  /\ NextLevelReturned
  /\ \E u \in DOMAIN call.previous_game.player_wins :
       /\ u \notin Range(call.previous_game.players)
       /\ u \notin DOMAIN game.player_wins
       /\ u \notin Range(game.players)
  /\ \E v \in Range(game.players) :
       /\ Total(call.previous_game, v) >= 1
       /\ Total(game, v) = 0

\* C19: the session create_next_level returns is at the level after the
\* previous one, with level_complete false, no winner, game_over false and
\* the tick counter at 0; and every player of its roster has a position, on
\* a cell that is no obstacle, no item cell and not the portal, and that no
\* other player has.
C19_NextLevelResetsAndPlaces ==
  NextLevelReturned =>
    /\ game.level = call.previous_game.level + 1
    /\ ~game.level_complete
    /\ game.winner = NoUser
    /\ ~game.game_over
    /\ game.zombie_move_counter = 0
    /\ \A u \in Range(game.players) :
         /\ u \in Active(game)
         /\ game.player_positions[u] \in
              Cells \ (game.obstacles \cup DOMAIN game.items \cup {game.portal_pos})
         /\ \A v \in Active(game) \ {u} :
              game.player_positions[v] # game.player_positions[u]

\* the cells taken by the obstacles, the items and the portal of g
Furnished(g) == g.obstacles \cup DOMAIN g.items \cup {g.portal_pos}

\* in g the zombies are on cells of their own: off obstacles, items, portal
\* and players, no two on one cell
ZombiesApart(g) ==
  /\ \A i \in DOMAIN g.zombies :
       g.zombies[i] \in Cells \ (Furnished(g) \cup Values(g.player_positions))
  /\ \A i, j \in DOMAIN g.zombies : i # j => g.zombies[i] # g.zombies[j]

\* in g player u is on a cell of its own: off obstacles, items, portal,
\* other players and zombies
PlayerApart(g, u) ==
  /\ g.player_positions[u] \in Cells \ (Furnished(g) \cup Range(g.zombies))
  /\ \A v \in Active(g) \ {u} : g.player_positions[v] # g.player_positions[u]

\* C20: no item is on an obstacle and the portal is on neither; a session
\* as constructed or as returned by create_next_level has every player and
\* every zombie on a cell that holds nothing else; and a player placed by a
\* later add_player is on a cell that holds nothing else either.
C20_PlacementsDisjoint ==
  /\ DOMAIN game.items \cap game.obstacles = {}
  /\ game.portal_pos \notin game.obstacles \cup DOMAIN game.items
  /\ call.op \in {"init", "create_next_level"} =>
       ZombiesApart(game) /\ \A u \in Active(game) : PlayerApart(game, u)
  /\ call.op = "add_player" /\ call.ret => PlayerApart(game, call.user_id)

\* C21: a session has no portal only if every cell of its field is an
\* obstacle or an item cell, and a session without a portal has no winner and
\* is not level-complete, whatever calls were made on it.
C21_NoPortalNoCompletion ==
  game.portal_pos = NoCell =>
    /\ Cells \subseteq game.obstacles \cup DOMAIN game.items
    /\ game.winner = NoUser
    /\ ~game.level_complete

\* a move was asked of a session without a portal
C21_Witness ==
  /\ game.portal_pos = NoCell
  /\ call.op = "move"
  /\ game.winner = NoUser


\* the cells of g free of obstacles, players, items and portal
FreeCells(g) ==
  Cells \ (g.obstacles \cup Values(g.player_positions) \cup DOMAIN g.items
             \cup {g.portal_pos})

\* C22: placement fails only when every cell is excluded: add_player is
\* refused for want of a cell only if no cell is free of obstacles, players,
\* items and portal, and a generation leaves fewer zombies than the least
\* count of its level only if no free cell remains beside them.
C22_PlacementFailsOnlyWhenFull ==
  /\ (call.op = "add_player" /\ call.exit = "full") => FreeCells(game) = {}
  /\ call.op \in {"init", "create_next_level"} =>
       \/ Len(game.zombies) >= ZombieCount(game.level)[1]
       \/ FreeCells(game) \ Range(game.zombies) = {}


\* the cell the mover of the last accepted move moved to
FirstTarget == passes[1].before.player_positions[call.user_id]

\* move(u, d) asks for a cell of the field that is no obstacle and holds no
\* player, in a session that is not over
FreeTarget(g, u, d) ==
  /\ ~g.game_over
  /\ u \in Active(g)
  /\ LET target == Plus(g.player_positions[u], d)
     IN /\ InBounds(target)
        /\ target \notin g.obstacles
        /\ \A v \in Active(g) : g.player_positions[v] # target

\* C23 as stated: a move towards a free cell is accepted, and the move of
\* another player that follows it towards the same cell is refused and
\* changes nothing, whatever the first move led to.
C23_SecondMoverAlwaysRefused ==
  [][/\ \A u \in Active(game), d \in Displacements :
          FreeTarget(game, u, d) => MoveReturn(game, u, d) = "ok"
     /\ call'.op = "move" /\ ~call'.ret => game' = game
     /\ AcceptedMove /\ call.d \in Displacements
          /\ call'.op = "move" /\ call'.ret /\ call'.d \in Displacements
          /\ call'.user_id # call.user_id =>
          Plus(game.player_positions[call'.user_id], call'.d) # FirstTarget]_vars

\* C23, amended: a move towards a free cell is accepted, and while its mover
\* is still active (the collision passes of that move did not eliminate the
\* mover) the move of another player that follows it towards the same cell is
\* refused and changes nothing.
C23_SecondMoverRefused ==
  [][/\ \A u \in Active(game), d \in Displacements :
          FreeTarget(game, u, d) => MoveReturn(game, u, d) = "ok"
     /\ call'.op = "move" /\ ~call'.ret => game' = game
     /\ AcceptedMove /\ call.d \in Displacements
          /\ call'.op = "move" /\ call'.ret /\ call'.d \in Displacements
          /\ call'.user_id # call.user_id /\ call.user_id \in Active(game) =>
          Plus(game.player_positions[call'.user_id], call'.d) # FirstTarget]_vars

\* after an accepted move onto a cell that was free, the mover is on that
\* cell and another active player stands next to it, whose move towards it
\* is refused as occupied
C23_Witness ==
  /\ AcceptedMove
  /\ call.d \in Displacements
  /\ call.user_id \in Active(game)
  /\ game.player_positions[call.user_id] = FirstTarget
  /\ \E v \in Active(game) \ {call.user_id}, d \in Displacements :
       /\ Plus(game.player_positions[v], d) = FirstTarget
       /\ MoveReturn(game, v, d) = "occupied"

\* C24: move accepts only the four unit directions: a move by (0, 0), by two
\* cells or by any other displacement returns False and changes nothing, so
\* every accepted move was a step in one of the four directions.
C24_NonUnitMoveRejected ==
  [][/\ call'.op = "move" /\ call'.ret => call'.d \in Displacements
     /\ call'.op = "move" /\ call'.d \notin Displacements => game' = game]_vars


\* C25: a session is never level-complete and game-over at once (so no move
\* takes it to both).
C25_CompleteAndOverExclude ==
  ~(game.level_complete /\ game.game_over)

\* C26: a level-complete session is terminal: no move on it is accepted, and
\* its player coordinates, inventories, lives, item map and zombie list no
\* longer change (create_next_level returns another session).
C26_CompleteIsTerminal ==
  [][game.level_complete /\ call'.op # "create_next_level" =>
       /\ call'.op = "move" => ~call'.ret
       /\ game'.player_positions = game.player_positions
       /\ game'.collected_items = game.collected_items
       /\ game'.player_lives = game.player_lives
       /\ game'.items = game.items
       /\ game'.zombies = game.zombies]_vars

\* what a cell shows by the priority player > portal (only when some active
\* player meets the item threshold) > zombie > item > obstacle > empty
ByPriority(g, pos) ==
  IF pos \in Values(g.player_positions) THEN "player"
  ELSE IF pos = g.portal_pos /\ \E u \in Active(g) : Total(g, u) >= g.required_items_count
       THEN "portal"
  ELSE IF pos \in Range(g.zombies) THEN "zombie"
  ELSE IF pos \in DOMAIN g.items THEN g.items[pos]
  ELSE IF pos \in g.obstacles THEN "obstacle"
  ELSE "empty"

\* C27: render shows every field cell by that priority; in particular a cell
\* with a zombie and no player shows the zombie unless the portal is shown
\* on it.
C27_RenderFollowsPriority ==
  \A pos \in Cells : Render(game)[pos[2]][pos[1]] = ByPriority(game, pos)

\* no neighbouring cell of z is inside the grid and free of obstacles
Enclosed(g, z) ==
  \A d \in Displacements : ~InBounds(Plus(z, d)) \/ Plus(z, d) \in g.obstacles

\* C28: the zombie step of a move, run with an active player on the field,
\* takes every zombie exactly one step in one of the four directions onto a
\* cell inside the grid that is no obstacle, and leaves a zombie where it was
\* only if the zombie is enclosed; it keeps the number of zombies, and no
\* call on a session makes its zombie list longer.
C28_ZombieStepIsOneStep ==
  [][/\ call'.op = "move" /\ Len(passes') = 2 =>
          LET g == passes'[1].after
              ws == g.zombies
              zs == passes'[2].before.zombies
          IN /\ Len(zs) = Len(ws)
             /\ Active(g) # {} =>
                  \A i \in DOMAIN ws :
                    IF Enclosed(g, ws[i]) THEN zs[i] = ws[i]
                    ELSE /\ Manhattan(ws[i], zs[i]) = 1
                         /\ InBounds(zs[i])
                         /\ zs[i] \notin g.obstacles
     /\ call'.op # "create_next_level" => Len(game'.zombies) <= Len(game.zombies)]_vars

\* the zombie step of the last move ran with an active player and moved a
\* zombie by one step
C28_Witness ==
  /\ AcceptedMove
  /\ Len(passes) = 2
  /\ Active(passes[1].after) # {}
  /\ passes[1].after.zombies # <<>>
  /\ \A i \in DOMAIN passes[1].after.zombies :
       Manhattan(passes[1].after.zombies[i], passes[2].before.zombies[i]) = 1

\* C30: a constructed session has required_items_count plus 2 to 4 items, so
\* at least required_items_count of them, each on a cell that is no obstacle.
C30_ItemCountIsThresholdPlusSurplus ==
  call.op \in {"init", "create_next_level"} =>
    /\ Cardinality(DOMAIN game.items) \in
         (game.required_items_count + 2)..(game.required_items_count + 4)
    /\ DOMAIN game.items \cap game.obstacles = {}


Gone(g, u) ==
  /\ u \in DOMAIN g.player_wins
  /\ u \notin Range(g.players)
  /\ u \notin Active(g)

\* C31: add_player for a player eliminated earlier in the session is accepted
\* whenever a cell is free of obstacles, players, items and portal (it is
\* refused only for an id that is active or for want of a cell); the player
\* is appended to the roster with the lives passed to add_player and an
\* inventory of zeros, and keeps the win counter held before.
C31_RejoinKeepsWins ==
  [][call'.op = "add_player" =>
       IF call'.ret
       THEN LET u == call'.user_id
            IN Gone(game, u) =>
                 /\ game'.players = Append(game.players, u)
                 /\ game'.player_lives[u] = call'.lives
                 /\ game'.collected_items[u] = EmptyInventory
                 /\ game'.player_wins[u] = game.player_wins[u]
       ELSE \/ call'.exit = "active" /\ Active(game) # {}
            \/ call'.exit = "full" /\ FreeOfAll(game) = {}]_vars

\* a player who won a level and was then eliminated with the rest of the
\* roster has been added again and holds the win
C31_Witness ==
  /\ call.op = "add_player"
  /\ call.ret
  /\ game.game_over
  /\ game.players = <<call.user_id>>
  /\ game.player_wins[call.user_id] = 1
  /\ game.collected_items[call.user_id] = EmptyInventory


Remaining(l) ==
  IF l.pc = "done" THEN 0
  ELSE 1 + (MaxAttempts(l.name) - l.attempts) + (Width * Height - Len(l.scanned))

\* C33: every placement loop terminates, whatever the grid, a grid with no
\* free cell included: each iteration of a random loop uses up one of the
\* attempts its ceiling allows or returns, and each iteration of a fallback
\* scan visits a cell not visited before or returns, so that what the loop
\* may still do shrinks with every iteration and never falls below zero.
C33_PlacementLoopsAreBounded ==
  [][loop.pc # "done" =>
       /\ loop'.attempts <= MaxAttempts(loop'.name)
       /\ Len(loop'.scanned) = Cardinality(Range(loop'.scanned))
       /\ Range(loop'.scanned) \subseteq Cells
       /\ Remaining(loop') >= 0
       /\ loop'.iterations <= MaxAttempts(loop'.name) + Width * Height
       /\ Remaining(loop') < Remaining(loop)]_vars
\* a start position was sought on a grid with no free cell: every attempt
\* was used, every cell was scanned once, and None came back
C33_Witness ==
  /\ loop.name = "_generate_start_position" /\ loop.pc = "done"
  /\ loop.blocked = Cells
  /\ loop.attempts = 200
  /\ Len(loop.scanned) = Width * Height
  /\ loop.result = NoCell


\* C34: after every purchase_item and use_item call each stored count lies
\* between 1 and the item's max_stack; purchase_item with XP below the cost
\* or with the count at max_stack fails and leaves the ledger as it was;
\* use_item on a count of 0 returns False and leaves the ledger as it was.
C34_LedgerWithinStack ==
  [][LET u == shop'.user_id
         i == shop'.item_id
         before == StoredCount(shop.ledger, u, i)
     IN /\ \A v \in DOMAIN shop'.ledger : \A k \in DOMAIN shop'.ledger[v] :
             /\ k \in DOMAIN SHOP_ITEMS
             /\ shop'.ledger[v][k] >= 1
             /\ shop'.ledger[v][k] <= SHOP_ITEMS[k].max_stack
        /\ (/\ shop'.op = "purchase_item"
            /\ i \in DOMAIN SHOP_ITEMS
            /\ \/ shop'.player_xp < SHOP_ITEMS[i].cost
               \/ before >= SHOP_ITEMS[i].max_stack)
           => ~shop'.ret /\ shop'.ledger = shop.ledger
        /\ (shop'.op = "use_item" /\ before = 0)
           => ~shop'.ret /\ shop'.ledger = shop.ledger]_vars
\* the last shield was used and its key left the ledger, after the stack had
\* been filled
C34_Witness ==
  /\ shop.op = "use_item" /\ shop.ret /\ shop.item_id = "shield"
  /\ shop.user_id \in DOMAIN shop.ledger
  /\ "shield" \notin DOMAIN shop.ledger[shop.user_id]
  /\ StoredCount(shop.ledger, shop.user_id, "extra_heart") = SHOP_ITEMS.extra_heart.max_stack


\* C35: while the active roster holds no more players than the palette has
\* entries, two distinct active players never have the same identity.
C35_IdentitiesAreDistinct ==
  Cardinality(Active(game)) <= PaletteSize =>
    \A a \in Active(game) : \A b \in Active(game) \ {a} :
      game.player_emojis[a] # game.player_emojis[b]


\* C36: when a move assigns winner, the winner is in the active roster when
\* that move returns, and so is carried by create_next_level.
C36_WinnerStaysActive ==
  [][call'.op = "move" /\ call'.won =>
       /\ game'.winner \in Active(game')
       /\ game'.winner \in Range(game'.players)
       /\ \A next \in CreateNextLevel(game') : game'.winner \in Range(next.players)]_vars


\* C37: an accepted move by one player leaves every other player's win
\* counter as it was; another player who is still active afterwards keeps
\* coordinate and inventory, one who is not was eliminated by a collision
\* pass of that move; and another player's lives change only within the
\* collision passes.
C37_MoveLeavesOthersAlone ==
  [][call'.op = "move" /\ call'.ret =>
       \A b \in (DOMAIN game.player_wins \cup Active(game)) \ {call'.user_id} :
         /\ b \in DOMAIN game.player_wins =>
              /\ b \in DOMAIN game'.player_wins
              /\ game'.player_wins[b] = game.player_wins[b]
         /\ b \in Active(game) =>
              /\ b \in Active(passes'[1].before)
              /\ passes'[1].before.player_lives[b] = game.player_lives[b]
              /\ \A i \in 1..(Len(passes') - 1) :
                   b \in Active(passes'[i].after) =>
                     /\ b \in Active(passes'[i + 1].before)
                     /\ passes'[i + 1].before.player_lives[b] = passes'[i].after.player_lives[b]
              /\ LET last == passes'[Len(passes')].after
                 IN /\ b \in Active(game') <=> b \in Active(last)
                    /\ b \in Active(last) =>
                         game'.player_lives[b] = last.player_lives[b]
              /\ b \in Active(game') =>
                   /\ game'.player_positions[b] = game.player_positions[b]
                   /\ game'.collected_items[b] = game.collected_items[b]
                   /\ game'.player_lives[b] <= game.player_lives[b]
              /\ b \notin Active(game') =>
                   \E i \in DOMAIN passes' :
                     /\ b \in Active(passes'[i].before)
                     /\ b \notin Active(passes'[i].after)
                     /\ passes'[i].before.player_positions[b] \in Range(passes'[i].before.zombies)]_vars
\* a move by one player during which a collision pass took a life of
\* another, who stayed active where they were
C37_Witness ==
  /\ call.op = "move" /\ call.ret
  /\ \E b \in Active(game) \ {call.user_id} : \E i \in DOMAIN passes :
       /\ b \in Active(passes[i].before)
       /\ passes[i].after.player_lives[b] < passes[i].before.player_lives[b]
       /\ game.player_positions[b] = passes[1].before.player_positions[b]


\* C38: the roster lists no id twice; the ids it lists are exactly the keys
\* of the position, life, inventory and identity tables, and all are keys
\* of the win table (in a session returned by create_next_level too).
C38_RosterMatchesTables ==
  /\ Len(game.players) = Cardinality(Range(game.players))
  /\ Range(game.players) = DOMAIN game.player_positions
  /\ Range(game.players) = DOMAIN game.player_lives
  /\ Range(game.players) = DOMAIN game.collected_items
  /\ Range(game.players) = DOMAIN game.player_emojis
  /\ Range(game.players) \subseteq DOMAIN game.player_wins


\* the items of a session that are still accounted for: those on the field
\* and those in the inventories of the active players
RECURSIVE Carried(_, _)
Carried(g, n) ==
  IF n = 0 THEN 0
  ELSE Carried(g, n - 1) +
       (IF n \in Active(g) /\ n \in DOMAIN g.collected_items
        THEN LET inv == g.collected_items[n]
             IN inv.diamond + inv.wood + inv.stone + inv.coal
        ELSE 0)
Accounted(g) == Cardinality(DOMAIN g.items) + Carried(g, NumUsers)

\* C39: items are conserved within a session: a new session accounts for
\* exactly the items generated, all on the field; no operation on it
\* raises that number, and an operation after which every player active
\* before is still active leaves it as it was; an item leaves the field
\* only from the cell the mover steps onto, whatever the zombies step onto.
C39_ItemsAreConserved ==
  /\ Accounted(game) = Cardinality(DOMAIN game.items)
  /\ [][IF call'.op = "create_next_level"
        THEN Carried(game', NumUsers) = 0
        ELSE LET was == Accounted(game)
                 is == Accounted(game')
             IN /\ is <= was
                /\ Active(game) \subseteq Active(game') => is = was
                /\ \A pos \in DOMAIN game'.items :
                     pos \in DOMAIN game.items /\ game'.items[pos] = game.items[pos]
                /\ \A pos \in DOMAIN game.items \ DOMAIN game'.items :
                     /\ call'.op = "move" /\ call'.ret
                     /\ call'.user_id \in Active(game)
                     /\ pos = Plus(game.player_positions[call'.user_id], call'.d)]_vars
\* a player holds an item after a move whose tick left a zombie standing on
\* another item, which is still on the field; nobody has left the session
C39_Witness ==
  /\ call.op = "move" /\ call.ret
  /\ Len(passes) = 2
  /\ \E z \in Range(game.zombies) : z \in DOMAIN game.items
  /\ Range(game.players) = Active(game)
  /\ Accounted(game) > Cardinality(DOMAIN game.items)

====
